---- MODULE Spec2Model ----
(***************************************************************************)
(* Model of the PTY conductor: TaskRunner.create_task, the per-worker      *)
(* WorkerRuntime monitor (sentinel-framed result extraction) and the rows  *)
(* they write (tasks, workers, flows, task events).                        *)
(***************************************************************************)
EXTENDS Integers, Sequences, FiniteSets, TLC

\* ------------------------------------------------------------------ bounds

\* Number of task ids (uuid4 values) the model hands out.
MaxTasks == 2
\* Most stdout_chunk events the model lets the log hold.
MaxChunks == 1
\* Most WorkerRuntime objects the model lets the process construct.
MaxRuntimes == 3
\* Largest max_iterations a flow is started with.
MaxFlowIterations == 2
\* Watcher cycles (_poll_once calls) of one run.
MaxCycles == 5
\* render calls on one TerminalEmulator.
MaxRenders == 3
\* Pieces in which a tool's output reaches the pane.
MaxOutputs == 2
\* Times the pane loses its top line.
MaxScrolls == 1

\* ------------------------------------------------------------- Python None

\* None for a string-valued column or attribute (error_message, flow_id).
None == "None"
\* None for _collecting_task_id (task ids are 1..MaxTasks).
NoTask == 0
\* None for a WorkerRuntime reference (the objects are numbered from 1).
NoRuntime == 0

\* ------------------------------------------------------------------ enums

TaskStatus == {"queued", "running", "completed", "failed"}
WorkerStatus == {"idle", "busy", "error", "terminated"}
FlowStatus == {"running", "completed", "failed"}
TaskEventType == {"stdout_chunk", "stderr_chunk", "state_change", "result_parsed"}

\* --------------------------------------------------------------- settings

sentinel_start == "<<<AGENT_RESULT_START>>>"
sentinel_end == "<<<AGENT_RESULT_END>>>"

\* settings.watcher_default_stability
WatcherDefaultStability == 3

\* Tools with a shim script.
TOOL_SHIMS == {"codex", "claude", "gemini", "critic_llm"}

\* ------------------------------------------------------------- pane lines

\* A pane line is the sequence of its whitespace-separated pieces; a piece is
\* a bare word, or a JSON lexeme (punctuation, a string literal, a number).
Wd(v) == [t |-> "word", v |-> v]
Pn(v) == [t |-> "punct", v |-> v]
St(v) == [t |-> "str", v |-> v]
Nm(v) == [t |-> "num", v |-> v]

LineStart == <<Wd(sentinel_start)>>
LineEnd == <<Wd(sentinel_end)>>
LineNoise == <<Wd("not"), Wd("json")>>
LineOk ==
    <<Pn("{"), St("status"), Pn(":"), St("ok"), Pn(","),
      St("summary"), Pn(":"), St("done"), Pn("}")>>
LineFailed ==
    <<Pn("{"), St("status"), Pn(":"), St("failed"), Pn(","),
      St("error"), Pn(":"), St("boom"), Pn("}")>>
LineError == <<Pn("{"), St("status"), Pn(":"), St("error"), Pn("}")>>
LineOther == <<Pn("{"), St("status"), Pn(":"), St("partial"), Pn("}")>>
LineEmptyObj == <<Pn("{"), Pn("}")>>
LineNum == <<Nm("42")>>
LineHead == <<Pn("{"), St("status"), Pn(":"), St("ok"), Pn(",")>>
LineTail == <<St("summary"), Pn(":"), St("done"), Pn("}")>>

\* The lines the pane can show.
PaneLines ==
    {LineStart, LineEnd, LineNoise, LineOk, LineFailed, LineError, LineOther,
     LineEmptyObj, LineNum, LineHead, LineTail}

\* The texts the model lets a tool print between the sentinels (and, line by
\* line, their prefixes): every single line, an object spread over two lines,
\* and two objects one after the other.
Payloads ==
    {<<l>> : l \in PaneLines \ {LineStart, LineEnd}}
        \cup {<<LineHead, LineTail>>, <<LineOk, LineOk>>}

IsPrefix(p, q) == Len(p) <= Len(q) /\ SubSeq(q, 1, Len(p)) = p

\* The lines the model lets a tool print outside a sentinel block.
StdoutLines == {LineNoise}

\* `marker in stripped`: substring match of a sentinel on the stripped line.
Contains(line, marker) == \E i \in 1..Len(line) : line[i] = Wd(marker)

\* ------------------------------------------------------------- json.loads

\* A parsed JSON value: an object carries its members in fields, any other
\* value its text.
EmptyFields == [k \in {} |-> ""]
JObject(fields) == [kind |-> "object", text |-> "", fields |-> fields]
JScalar(kind, text) == [kind |-> kind, text |-> text, fields |-> EmptyFields]
\* json.loads("null") is Python's None.
JNull == JScalar("null", "null")

\* "\n".join(lines): the newline is whitespace between the pieces.
RECURSIVE JoinLines(_)
JoinLines(lines) ==
    IF lines = <<>> THEN <<>> ELSE Head(lines) \o JoinLines(Tail(lines))

IsScalarLex(x) == x.t \in {"str", "num"} \/ (x.t = "word" /\ x.v = "null")
ScalarOf(x) ==
    IF x.t = "str" THEN JScalar("string", x.v)
    ELSE IF x.t = "num" THEN JScalar("number", x.v)
    ELSE JNull

\* Members of an object, after the opening brace: key : string-or-number
\* pairs separated by commas. Returns ok = FALSE on a syntax error; a
\* repeated key keeps its last value, as a Python dict does.
RECURSIVE ParseMembers(_, _)
AfterMember(rest, acc) ==
    IF rest = <<>> THEN [ok |-> TRUE, fields |-> acc]
    ELSE IF rest[1] = Pn(",") THEN ParseMembers(Tail(rest), acc)
    ELSE [ok |-> FALSE, fields |-> EmptyFields]

ParseMembers(lex, acc) ==
    IF Len(lex) < 3 \/ lex[1].t # "str" \/ lex[2] # Pn(":") \/ lex[3].t \notin {"str", "num"}
    THEN [ok |-> FALSE, fields |-> EmptyFields]
    ELSE AfterMember(SubSeq(lex, 4, Len(lex)),
                     [k \in DOMAIN acc \cup {lex[1].v} |->
                          IF k = lex[1].v THEN lex[3].v ELSE acc[k]])

ParsedObject(m) ==
    IF m.ok THEN [ok |-> TRUE, value |-> JObject(m.fields)]
    ELSE [ok |-> FALSE, value |-> JNull]

\* The JSON value a non-empty sequence of lexemes spells, if any.
ParseValue(lex) ==
    IF Len(lex) = 1
    THEN IF IsScalarLex(lex[1]) THEN [ok |-> TRUE, value |-> ScalarOf(lex[1])]
         ELSE [ok |-> FALSE, value |-> JNull]
    ELSE IF lex[1] = Pn("{") /\ lex[Len(lex)] = Pn("}")
         THEN IF Len(lex) = 2 THEN [ok |-> TRUE, value |-> JObject(EmptyFields)]
              ELSE ParsedObject(ParseMembers(SubSeq(lex, 2, Len(lex) - 1), EmptyFields))
    ELSE [ok |-> FALSE, value |-> JNull]

\* Mutant: an empty document is read as null instead of being rejected.
ParseLexemesEmptyIsNull(lex) ==
    IF Len(lex) = 0 THEN [ok |-> TRUE, value |-> JNull] ELSE ParseValue(lex)

\* The JSON value a sequence of lexemes spells, if any: an empty document
\* is an error.
ParseLexemes(lex) ==
    IF Len(lex) = 0 THEN [ok |-> FALSE, value |-> JNull] ELSE ParseValue(lex)

\* json.loads(payload_text): ok = FALSE stands for json.JSONDecodeError.
JsonLoads(lines) == ParseLexemes(JoinLines(lines))

\* Python truthiness of a parsed value (`result or {}`).
Truthy(v) ==
    CASE v.kind = "object" -> DOMAIN v.fields # {}
      [] v.kind = "string" -> v.text # ""
      [] v.kind = "number" -> v.text # "0"
      [] OTHER -> FALSE

\* dict.get(key): None when the key is absent.
DictGet(fields, key) == IF key \in DOMAIN fields THEN fields[key] ELSE None

\* ------------------------------------------------------------ classifiers

\* A pane snapshot is the sequence of its pieces of text. The cues of the
\* classifier pack: a regex of a list matches a snapshot that holds one of
\* the list's cues.
Pack ==
    [idle_regexes |-> {"$"}, busy_regexes |-> {"Running"},
     confirm_regexes |-> {"[y/N]"}, error_regexes |-> {"Traceback"}]

\* RegexClassifier._match_any.
MatchAny(patterns, text) == \E i \in 1..Len(text) : text[i] \in patterns

ClassificationResult(state, summary, actions_needed) ==
    [kind |-> "result", state |-> state, summary |-> summary,
     actions_needed |-> actions_needed]

\* An exception that leaves a call.
Raised(exc) == [kind |-> "raised", exc |-> exc]

\* RegexClassifier.classify: the first list with a match decides.
RegexClassify(pack, snapshot) ==
    IF MatchAny(pack.error_regexes, snapshot)
    THEN ClassificationResult("ERROR", "Detected error output",
                              "Inspect the PTY logs to unblock the worker.")
    ELSE IF MatchAny(pack.confirm_regexes, snapshot)
    THEN ClassificationResult("NEEDS_CONFIRMATION", "Tool is waiting for explicit confirmation",
                              "Answer the confirmation prompt in the PTY.")
    ELSE IF MatchAny(pack.busy_regexes, snapshot)
    THEN ClassificationResult("BUSY", "Workload still running", None)
    ELSE IF MatchAny(pack.idle_regexes, snapshot)
    THEN ClassificationResult("READY", "Idle prompt detected", None)
    ELSE ClassificationResult("READY", "No activity detected in snapshot", None)

\* What the completion endpoint can do with the request: the POST fails, the
\* status is an HTTP error, the body has no choices, or choices[0] carries a
\* message whose content is the given sequence of lexemes.
ReplyState ==
    <<Pn("{"), St("state"), Pn(":"), St("BUSY"), Pn(","),
      St("summary"), Pn(":"), St(" compiling "), Pn(","),
      St("actions_needed"), Pn(":"), St("wait"), Pn("}")>>
\* The object the system prompt asks for: four axes, no "state" member.
ReplyAxes ==
    <<Pn("{"), St("session_lifecycle"), Pn(":"), St("ACTIVE_SESSION"), Pn(","),
      St("io_disposition"), Pn(":"), St("STREAMING_OUTPUT"), Pn(","),
      St("summary"), Pn(":"), St("compiling"), Pn("}")>>
ReplyUnknownState == <<Pn("{"), St("state"), Pn(":"), St("banana"), Pn("}")>>
ReplyEmptyState == <<Pn("{"), St("state"), Pn(":"), St(""), Pn("}")>>
ReplyMessages ==
    {ReplyState, ReplyAxes, ReplyUnknownState, ReplyEmptyState,
     LineEmptyObj, LineNum, LineNoise, LineHead, <<>>}
RemoteOutcomes ==
    {[kind |-> k, message |-> <<>>] : k \in {"network_error", "http_error", "no_choices"}}
        \cup {[kind |-> "reply", message |-> m] : m \in ReplyMessages}

\* `value or default` on what dict.get returned.
OrDefault(value, default) == IF value = None \/ value = "" THEN default ELSE value

\* str.strip() on the summaries the replies carry.
Strip(text) == IF text = " compiling " THEN "compiling" ELSE text

\* The object json.loads returned, read by .get: state, summary and
\* actions_needed.
ResultOfObject(fields) ==
    ClassificationResult(OrDefault(DictGet(fields, "state"), "READY"),
                         Strip(OrDefault(DictGet(fields, "summary"), "")),
                         DictGet(fields, "actions_needed"))

\* json.loads(message) and the .get calls on its value: a value that is no
\* object has no .get.
ResultOfMessage(parsed) ==
    IF ~parsed.ok THEN Raised("JSONDecodeError")
    ELSE IF parsed.value.kind # "object" THEN Raised("AttributeError")
    ELSE ResultOfObject(parsed.value.fields)

\* OpenRouterClassifier.classify with an API key configured.
OpenRouterClassify(remote) ==
    IF remote.kind = "network_error" THEN Raised("ConnectionError")
    ELSE IF remote.kind = "http_error" THEN Raised("HTTPError")
    ELSE IF remote.kind = "no_choices" THEN Raised("KeyError")
    ELSE ResultOfMessage(ParseLexemes(remote.message))

\* The except clause of HybridClassifier.classify.
RegexUnlessResult(llm_result, pack, snapshot) ==
    IF llm_result.kind = "raised" THEN RegexClassify(pack, snapshot) ELSE llm_result

\* HybridClassifier.classify: llm says whether an API key is configured.
HybridClassify(pack, snapshot, llm, remote) ==
    IF llm THEN RegexUnlessResult(OpenRouterClassify(remote), pack, snapshot)
    ELSE RegexClassify(pack, snapshot)

\* The snapshots the classifiers are asked about.
Snapshots ==
    {<<>>, <<"$">>, <<"Running">>, <<"[y/N]">>, <<"Traceback">>, <<"make">>,
     <<"Running", "$">>, <<"Traceback", "$">>, <<"[y/N]", "Running">>}

\* ------------------------------------------------------------------ state

\* Worker rows present in the store, each with a runtime created by bootstrap.
WorkerIds == {"w1"}
\* Flow rows present in the store.
FlowIds == {"f1"}
\* Tool names a caller may pass.
ToolNames == {"codex", "bogus"}
\* Worker ids a caller may pass: the stored ones and one that names no row.
CallerWorkerIds == WorkerIds \cup {"w0"}
\* Worker ids the registry is asked about.
RegistryWorkerIds == WorkerIds \cup {"w2"}
\* The callers of the registry: the startup hook, WorkerManager.create_worker
\* and create_task.
Callers == {"bootstrap", "create_worker", "create_task"}

VARIABLES
    tasks,               \* Task rows by id (flushed or committed)
    workers,             \* Worker rows by id
    flows,               \* Flow rows by id
    events,              \* TaskEvent rows of each task id, in insertion order
    next_id,             \* next fresh task id (uuid4)
    spec_files,          \* ids n with <workspace>/specs/<n>.json on disk
    create_pc,           \* position of the create_task call that owns each id
    running_tasks,       \* WorkerRuntime.running_tasks, per worker
    collecting_task_id,  \* WorkerRuntime._collecting_task_id, per worker
    result_lines,        \* WorkerRuntime._result_lines, per worker
    monitor_alive,       \* whether the worker's _monitor_loop task still runs
    unclaimed_block,     \* history: the last sentinel_start came with an empty FIFO
                         \* and no sentinel_end has been processed since
    runtimes,            \* RuntimeRegistry._runtimes: worker id -> runtime, or NoRuntime
    instances,           \* the WorkerRuntime objects constructed: the worker id of each
    monitors,            \* per WorkerRuntime object, the monitor loops it has started
    lock_holder,         \* the caller that holds RuntimeRegistry._lock, or None
    ensure_pc,           \* position of each caller of the registry
    ensure_worker,       \* the worker id each caller asks for
    ensure_runtime,      \* each caller's local variable `runtime`
    flow_pc,             \* position of the coordinator's _run task of each flow
    flow_config,         \* Flow.worker_id and Flow.config of each flow
    iteration,           \* _run's loop variable `iteration`
    coder_tasks,         \* the ids of the tasks _run has created, in order
    critic_result,       \* _run's local variable `critic_result`
    flow_iterations,     \* FlowIteration rows of each flow, in insertion order
    stability_polls,     \* ClassifierPack.stability_polls of the loaded pack
    cycle,               \* the _poll_once calls made so far; the clock of the watcher
    pane_state,          \* PtyWatcher.state: pane id -> PaneState
    status_rows,         \* rows of the status table, by pane id
    status_history,      \* rows of the status_history table, in insertion order
    status_file,         \* <workspace>/status.json of each worker, or None
    last_poll,           \* history: what the last cycle saw and did, per pane
    classify_log,        \* history: the classifier calls made for each pane
    classify_call,       \* the arguments and surroundings of a HybridClassifier.classify call
    classify_result,     \* what the call returned or raised; None before it ends
    screen,              \* TerminalEmulator._screen: the rows and the cursor
    stream_parser,       \* TerminalEmulator._stream: where its parser stands
    pane_text,           \* what tmux capture-pane prints for each worker's pane
    last_size,           \* TmuxController._last_size, per worker
    snapshot,            \* the PaneSnapshot the last capture_pane call returned
    pane_script,         \* the output the tools of the pane print, in order
    emitted,             \* how much of pane_script has reached the pane
    outputs,             \* history: the pieces in which it came
    scrolls,             \* history: the lines the pane has lost
    sent,                \* the commands send_line delivered, with emitted at that time
    rendered             \* the raw text and the result of each render call so far

storeVars == <<tasks, workers, flows, events>>
runnerVars == <<next_id, spec_files, create_pc>>
runtimeVars ==
    <<running_tasks, collecting_task_id, result_lines, monitor_alive, unclaimed_block>>
registryVars ==
    <<runtimes, instances, monitors, lock_holder, ensure_pc, ensure_worker, ensure_runtime>>
flowVars ==
    <<flow_pc, flow_config, iteration, coder_tasks, critic_result, flow_iterations>>
classifierVars == <<classify_call, classify_result>>
watcherVars ==
    <<stability_polls, cycle, pane_state, status_rows, status_history, status_file,
      last_poll, classify_log>>
emulatorVars == <<screen, stream_parser, rendered>>
tmuxVars == <<pane_text, last_size, snapshot, pane_script, emitted, outputs, scrolls, sent>>
ptyVars == <<watcherVars, classifierVars, emulatorVars, tmuxVars>>
vars == <<storeVars, runnerVars, runtimeVars, registryVars, flowVars, ptyVars>>

TaskIds == 1..MaxTasks

\* Task rows another session can read: committed ones.
Committed(id) == id \in DOMAIN tasks /\ create_pc[id] # "flushed"

\* A freshly constructed Task: the column defaults.
NewTask(worker_id, tool, flow_id) ==
    [worker_id |-> worker_id, tool |-> tool, flow_id |-> flow_id,
     status |-> "queued", result_json |-> JNull, error_message |-> None,
     started |-> FALSE, finished |-> FALSE]

\* bash <shim> specs/<task id>.json
BuildCommand(tool, id) == [tool |-> tool, spec_path |-> id]

Event(task_id, type, payload) == [task_id |-> task_id, type |-> type, payload |-> payload]

\* session.add(TaskEvent(...)): the row joins the events of its task.
AddEvent(evs, e) == [evs EXCEPT ![e.task_id] = Append(@, e)]

\* The registry after bootstrap: one runtime, with its monitor loop, for every
\* worker row.
Bootstrapped ==
    /\ runtimes = [w \in RegistryWorkerIds |-> IF w = "w1" THEN 1 ELSE NoRuntime]
    /\ instances = <<"w1">>
    /\ monitors = <<1>>
    /\ lock_holder = None
    /\ ensure_pc = [c \in Callers |-> "idle"]
    /\ ensure_worker = [c \in Callers |-> "w1"]
    /\ ensure_runtime = [c \in Callers |-> NoRuntime]

\* No coordinator task runs: the flow rows of the store were left by an
\* earlier run of the process.
NoCoordinator ==
    /\ flow_pc = [f \in FlowIds |-> "none"]
    /\ flow_config = [f \in FlowIds |-> [worker_id |-> "w1", max_iterations |-> 0, min_score |-> 0]]
    /\ iteration = [f \in FlowIds |-> 0]
    /\ coder_tasks = [f \in FlowIds |-> <<>>]
    /\ critic_result = [f \in FlowIds |-> [score |-> 0, iteration |-> 0]]
    /\ flow_iterations = [f \in FlowIds |-> <<>>]

\* No classifier call is under way.
NoClassifier ==
    /\ classify_call = [snapshot |-> <<>>, llm |-> FALSE, remote |-> [kind |-> "unused", message |-> <<>>]]
    /\ classify_result = [kind |-> "None"]

\* Pane ids tmux can list.
PaneIds == {"%1", "%2"}

\* A freshly constructed PtyWatcher, before its first cycle.
NoWatcher ==
    /\ cycle = 0
    /\ pane_state = <<>>
    /\ status_rows = <<>>
    /\ status_history = <<>>
    /\ status_file = [w \in WorkerIds |-> [pane_id |-> None]]
    /\ last_poll = [p \in PaneIds |-> [presence |-> "gone"]]
    /\ classify_log = [p \in PaneIds |-> <<>>]

\* TerminalDimensions of the emulator.
TerminalWidth == 4
TerminalHeight == 2

\* pyte.Screen after construction or reset(): blank rows, cursor at home.
BlankRow == [c \in 1..TerminalWidth |-> " "]
ResetScreen == [rows |-> [r \in 1..TerminalHeight |-> BlankRow], x |-> 0, y |-> 1]

\* TerminalEmulator.__init__: a screen and a stream whose parser waits for
\* plain text.
NoEmulator ==
    /\ screen = ResetScreen
    /\ stream_parser = "ground"
    /\ rendered = <<>>

\* TmuxController.__init__ for each worker, with a pane that shows nothing.
NoTmux ==
    /\ pane_text = [w \in WorkerIds |-> <<>>]
    /\ last_size = [w \in WorkerIds |-> 0]
    /\ snapshot = [w \in WorkerIds |-> [text |-> <<>>, new_text |-> <<>>, cursor_before |-> 0]]
    /\ emitted = 0
    /\ outputs = 0
    /\ scrolls = 0
    /\ sent = <<>>

\* The watcher daemon is a process of its own: here it does not run. The
\* panes of the other specifications are stood for by the batches of lines
\* handed to the monitor.
NoPty ==
    /\ NoWatcher /\ stability_polls = WatcherDefaultStability /\ NoClassifier /\ NoEmulator
    /\ NoTmux /\ pane_script = <<>>

Init ==
    /\ Bootstrapped
    /\ NoCoordinator
    /\ NoPty
    /\ tasks = <<>>
    /\ workers = [w \in WorkerIds |-> [status |-> "idle"]]
    /\ flows = [f \in FlowIds |-> [status |-> "running", result |-> [kind |-> "None"]]]
    /\ events = [i \in TaskIds |-> <<>>]
    /\ next_id = 1
    /\ spec_files = {}
    /\ create_pc = [i \in TaskIds |-> "none"]
    /\ running_tasks = [w \in WorkerIds |-> <<>>]
    /\ collecting_task_id = [w \in WorkerIds |-> NoTask]
    /\ result_lines = [w \in WorkerIds |-> <<>>]
    /\ monitor_alive = [w \in WorkerIds |-> TRUE]
    /\ unclaimed_block = [w \in WorkerIds |-> FALSE]

\* ------------------------------------------------------------ create_task

\* create_task for a worker that exists, up to the flush: the row is inserted
\* (status queued, not yet committed) and the spec file written; an unknown
\* tool then raises ValueError and the session rolls the row back.
CreateTaskFlush(w, tool, flow_id) ==
    /\ next_id <= MaxTasks
    /\ next_id' = next_id + 1
    /\ spec_files' = spec_files \cup {next_id}
    /\ IF tool \in TOOL_SHIMS
       THEN /\ tasks' = (next_id :> NewTask(w, tool, flow_id)) @@ tasks
            /\ create_pc' = [create_pc EXCEPT ![next_id] = "flushed"]
       ELSE /\ create_pc' = [create_pc EXCEPT ![next_id] = "done"]
            /\ UNCHANGED tasks
    /\ UNCHANGED <<workers, flows, events, runtimeVars, registryVars, ptyVars>>

\* create_task lines 34-49: a worker id with no row raises ValueError before
\* anything is written.
CreateTaskBegin(w, tool, flow_id) ==
    IF w \in DOMAIN workers
    THEN CreateTaskFlush(w, tool, flow_id)
    ELSE UNCHANGED <<storeVars, runnerVars, runtimeVars, registryVars, ptyVars>>

\* POST /workers/{worker_id}/tasks: create_task called for an API client.
CreateWorkerTask(w, tool, flow_id) ==
    /\ CreateTaskBegin(w, tool, flow_id)
    /\ UNCHANGED flowVars

\* Mutant: the commit leaves the task queued.
CreateTaskCommitStaysQueued(id) ==
    /\ create_pc[id] = "flushed"
    /\ workers' = [workers EXCEPT ![tasks[id].worker_id].status = "busy"]
    /\ events' = AddEvent(events,
                          Event(id, "state_change",
                                [state |-> "running", command |-> BuildCommand(tasks[id].tool, id)]))
    /\ create_pc' = [create_pc EXCEPT ![id] = "committed"]
    /\ UNCHANGED <<tasks, flows, next_id, spec_files, runtimeVars, registryVars, ptyVars, flowVars>>

\* Mutant: the commit without the state_change event.
CreateTaskCommitNoEvent(id) ==
    /\ create_pc[id] = "flushed"
    /\ tasks' = [tasks EXCEPT ![id].status = "running", ![id].started = TRUE]
    /\ workers' = [workers EXCEPT ![tasks[id].worker_id].status = "busy"]
    /\ create_pc' = [create_pc EXCEPT ![id] = "committed"]
    /\ UNCHANGED <<flows, events, next_id, spec_files, runtimeVars, registryVars, ptyVars, flowVars>>

\* create_task lines 49-60: the task becomes running, the worker busy, the
\* state_change event is added, and the transaction commits.
CreateTaskCommit(id) ==
    /\ create_pc[id] = "flushed"
    /\ tasks' = [tasks EXCEPT ![id].status = "running", ![id].started = TRUE]
    /\ workers' = [workers EXCEPT ![tasks[id].worker_id].status = "busy"]
    /\ events' = AddEvent(events,
                          Event(id, "state_change",
                                [state |-> "running", command |-> BuildCommand(tasks[id].tool, id)]))
    /\ create_pc' = [create_pc EXCEPT ![id] = "committed"]
    /\ UNCHANGED <<flows, next_id, spec_files, runtimeVars, registryVars, ptyVars, flowVars>>

\* WorkerRuntime.enqueue_task: the id is appended to the FIFO and the command
\* is sent to the pane (whose later output is the monitor's input).
EnqueueTask(w, id) ==
    /\ running_tasks' = [running_tasks EXCEPT ![w] = Append(@, id)]
    /\ UNCHANGED <<collecting_task_id, result_lines, monitor_alive, unclaimed_block>>

\* create_task lines 62-66, after the commit: the runtime is looked up and the
\* task enqueued.
CreateTaskEnqueue(id) ==
    /\ create_pc[id] = "committed"
    /\ EnqueueTask(tasks[id].worker_id, id)
    /\ create_pc' = [create_pc EXCEPT ![id] = "done"]
    /\ UNCHANGED <<storeVars, next_id, spec_files, registryVars, ptyVars, flowVars>>

\* ---------------------------------------------------------- WorkerRuntime

\* The state _process_lines works on while it walks one batch of lines: the
\* rows as its session sees them (db), the rows as of its last commit
\* (saved), the runtime's own fields, whether an exception has been raised,
\* and whether a model bound was exceeded.
Store == [tasks |-> tasks, workers |-> workers, flows |-> flows, events |-> events]

StartOfBatch(w) ==
    [db |-> Store, saved |-> Store,
     fifo |-> running_tasks[w],
     collecting |-> collecting_task_id[w],
     lines |-> result_lines[w],
     unclaimed |-> unclaimed_block[w],
     raised |-> FALSE, over |-> FALSE]

NumChunks(evs) ==
    Cardinality({<<t, i>> \in TaskIds \X (1..(MaxChunks + 2)) :
                     i <= Len(evs[t]) /\ evs[t][i].type = "stdout_chunk"})

\* deque.remove(x): drops the first occurrence.
RECURSIVE Remove(_, _)
Remove(q, x) ==
    IF q = <<>> THEN <<>>
    ELSE IF Head(q) = x THEN Tail(q)
    ELSE <<Head(q)>> \o Remove(Tail(q), x)

InSeq(q, x) == \E i \in 1..Len(q) : q[i] = x

\* `(result or {})`: the dict that .get is called on.
ResultOrEmpty(result) == IF Truthy(result) THEN result.fields ELSE EmptyFields

\* Mutant: every status other than "ok" counts as a failure.
OutcomeOfStrict(parsed) ==
    IF ~parsed.ok
    THEN [raised |-> FALSE, status |-> "failed", result |-> JNull,
          error_message |-> "Invalid JSON result from tool"]
    ELSE IF Truthy(parsed.value) /\ parsed.value.kind # "object"
    THEN [raised |-> TRUE, status |-> "completed", result |-> parsed.value,
          error_message |-> None]
    ELSE IF DictGet(ResultOrEmpty(parsed.value), "status") # "ok"
    THEN [raised |-> FALSE, status |-> "failed", result |-> parsed.value,
          error_message |-> DictGet(ResultOrEmpty(parsed.value), "error")]
    ELSE [raised |-> FALSE, status |-> "completed", result |-> parsed.value,
          error_message |-> None]

\* Lines 90-101 of _finalize_result: the outcome computed from the parsed
\* payload. raised stands for the AttributeError of calling .get on a parsed
\* value that is truthy and not a dict; only json.JSONDecodeError is caught.
OutcomeOf(parsed) ==
    IF ~parsed.ok
    THEN [raised |-> FALSE, status |-> "failed", result |-> JNull,
          error_message |-> "Invalid JSON result from tool"]
    ELSE IF Truthy(parsed.value) /\ parsed.value.kind # "object"
    THEN [raised |-> TRUE, status |-> "completed", result |-> parsed.value,
          error_message |-> None]
    ELSE IF DictGet(ResultOrEmpty(parsed.value), "status") \in {"failed", "error"}
    THEN [raised |-> FALSE, status |-> "failed", result |-> parsed.value,
          error_message |-> DictGet(ResultOrEmpty(parsed.value), "error")]
    ELSE [raised |-> FALSE, status |-> "completed", result |-> parsed.value,
          error_message |-> None]

Outcome(payload) == OutcomeOf(JsonLoads(payload))

\* Mutant: the reason is the error message even when there is none.
FailFlowNoDefault(fl, task, task_id, status) ==
    IF status = "failed" /\ task.flow_id # None /\ task.flow_id \in DOMAIN fl
    THEN [fl EXCEPT ![task.flow_id] =
              [status |-> "failed",
               result |-> [kind |-> "dict", reason |-> task.error_message,
                           task_id |-> task_id]]]
    ELSE fl

\* Lines 126-133: a failed task that carries a flow_id fails its flow.
FailFlow(fl, task, task_id, status) ==
    IF status = "failed" /\ task.flow_id # None /\ task.flow_id \in DOMAIN fl
    THEN [fl EXCEPT ![task.flow_id] =
              [status |-> "failed",
               result |-> [kind |-> "dict",
                           reason |-> IF task.error_message # None
                                      THEN task.error_message ELSE "task_failed",
                           task_id |-> task_id]]]
    ELSE fl

\* Mutant: the parsed result is not stored on the row.
FinishedTaskNoResult(task, o) ==
    [task EXCEPT !.error_message = o.error_message,
                 !.status = o.status,
                 !.finished = TRUE,
                 !.started = TRUE]

\* Lines 106-112: the fields written on the task row.
FinishedTask(task, o) ==
    [task EXCEPT !.result_json = o.result,
                 !.error_message = o.error_message,
                 !.status = o.status,
                 !.finished = TRUE,
                 !.started = TRUE]

\* Mutant: the finalised task stays in the FIFO.
FifoKept(fifo, task_id) == fifo

\* Lines 120-121: the task id leaves the FIFO.
FifoWithout(fifo, task_id) == IF InSeq(fifo, task_id) THEN Remove(fifo, task_id) ELSE fifo

\* Mutant: the worker is set idle whatever the FIFO still holds.
WorkerAfterAlwaysIdle(wk, worker_id, fifo) ==
    IF worker_id \in DOMAIN wk THEN [wk EXCEPT ![worker_id].status = "idle"] ELSE wk

\* Lines 122-125: the worker row follows the FIFO.
WorkerAfter(wk, worker_id, fifo) ==
    IF worker_id \in DOMAIN wk
    THEN [wk EXCEPT ![worker_id].status = IF fifo = <<>> THEN "idle" ELSE "busy"]
    ELSE wk

\* Line 134: the commit makes the session's rows the stored ones.
Commit(s, db, fifo) == [s EXCEPT !.db = db, !.saved = db, !.fifo = fifo]

\* Mutant: the result_parsed event is not written.
CommitResultNoEvent(s, task_id, task, o, fifo) ==
    Commit(s,
           [tasks |-> [s.db.tasks EXCEPT ![task_id] = task],
            workers |-> WorkerAfter(s.db.workers, task.worker_id, fifo),
            flows |-> FailFlow(s.db.flows, task, task_id, o.status),
            events |-> s.db.events],
           fifo)

\* Lines 106-134: the rows written and committed for a task that was found.
CommitResult(s, task_id, task, o, fifo) ==
    Commit(s,
           [tasks |-> [s.db.tasks EXCEPT ![task_id] = task],
            workers |-> WorkerAfter(s.db.workers, task.worker_id, fifo),
            flows |-> FailFlow(s.db.flows, task, task_id, o.status),
            events |-> AddEvent(s.db.events,
                                Event(task_id, "result_parsed",
                                      [result |-> o.result, error |-> o.error_message]))],
           fifo)

\* Mutant: with no task being collected, the FIFO head is finalised.
FinalizeTaskHeadFallback(s, task_id, o) ==
    IF task_id = NoTask /\ s.fifo = <<>> THEN s
    ELSE IF o.raised THEN [s EXCEPT !.raised = TRUE]
    ELSE IF task_id = NoTask
    THEN CommitResult(s, Head(s.fifo), FinishedTask(s.db.tasks[Head(s.fifo)], o), o,
                      Tail(s.fifo))
    ELSE IF ~Committed(task_id) THEN s
    ELSE CommitResult(s, task_id, FinishedTask(s.db.tasks[task_id], o), o,
                      FifoWithout(s.fifo, task_id))

\* Lines 88-105, with the collecting state already cleared in s.
FinalizeTask(s, task_id, o) ==
    IF task_id = NoTask THEN s
    ELSE IF o.raised THEN [s EXCEPT !.raised = TRUE]
    ELSE IF ~Committed(task_id) THEN s
    ELSE CommitResult(s, task_id, FinishedTask(s.db.tasks[task_id], o), o,
                      FifoWithout(s.fifo, task_id))

\* WorkerRuntime._finalize_result.
FinalizeResult(s) ==
    FinalizeTask([s EXCEPT !.collecting = NoTask, !.lines = <<>>],
                 s.collecting, Outcome(s.lines))

\* Mutant: the newest task is taken for the one being collected.
FifoLast(fifo) == IF fifo # <<>> THEN fifo[Len(fifo)] ELSE NoTask

\* Line 64: `self.running_tasks[0] if self.running_tasks else None`.
FifoHead(fifo) == IF fifo # <<>> THEN Head(fifo) ELSE NoTask

\* Mutant: a sentinel_start leaves the buffer as it is.
ProcessLineKeepsBuffer(s, raw_line) ==
    IF s.raised THEN s
    ELSE IF Contains(raw_line, sentinel_start)
    THEN [s EXCEPT !.collecting = FifoHead(s.fifo), !.unclaimed = (s.fifo = <<>>)]
    ELSE IF Contains(raw_line, sentinel_end)
    THEN FinalizeResult([s EXCEPT !.unclaimed = FALSE])
    ELSE IF s.collecting # NoTask
    THEN [s EXCEPT !.lines = Append(@, raw_line),
                   !.over = @ \/ ~\E p \in Payloads : IsPrefix(Append(s.lines, raw_line), p)]
    ELSE IF s.fifo # <<>>
    THEN [s EXCEPT !.db.events =
                       AddEvent(@, Event(Head(s.fifo), "stdout_chunk", [line |-> raw_line])),
                   !.over = @ \/ NumChunks(s.db.events) >= MaxChunks
                                \/ raw_line \notin StdoutLines]
    ELSE s

\* The body of the for loop of _process_lines, for one raw line.
ProcessLine(s, raw_line) ==
    IF s.raised THEN s
    ELSE IF Contains(raw_line, sentinel_start)
    THEN [s EXCEPT !.collecting = FifoHead(s.fifo), !.lines = <<>>,
                   !.unclaimed = (s.fifo = <<>>)]
    ELSE IF Contains(raw_line, sentinel_end)
    THEN FinalizeResult([s EXCEPT !.unclaimed = FALSE])
    ELSE IF s.collecting # NoTask
    THEN [s EXCEPT !.lines = Append(@, raw_line),
                   !.over = @ \/ ~\E p \in Payloads : IsPrefix(Append(s.lines, raw_line), p)]
    ELSE IF s.fifo # <<>>
    THEN [s EXCEPT !.db.events =
                       AddEvent(@, Event(Head(s.fifo), "stdout_chunk", [line |-> raw_line])),
                   !.over = @ \/ NumChunks(s.db.events) >= MaxChunks
                                \/ raw_line \notin StdoutLines]
    ELSE s

\* _process_lines: every line in turn, then the commit of the session; an
\* exception leaves the loop and the session rolls back to its last commit.
RECURSIVE WalkLines(_, _)
WalkLines(s, lines) ==
    IF lines = <<>> THEN s
    ELSE WalkLines(ProcessLine(s, Head(lines)), Tail(lines))

\* The store and the runtime after the batch: s is the state at the end of
\* the walk.
AfterBatch(w, s) ==
    /\ ~s.over
    /\ tasks' = IF s.raised THEN s.saved.tasks ELSE s.db.tasks
    /\ workers' = IF s.raised THEN s.saved.workers ELSE s.db.workers
    /\ flows' = IF s.raised THEN s.saved.flows ELSE s.db.flows
    /\ events' = IF s.raised THEN s.saved.events ELSE s.db.events
    /\ running_tasks' = [running_tasks EXCEPT ![w] = s.fifo]
    /\ collecting_task_id' = [collecting_task_id EXCEPT ![w] = s.collecting]
    /\ result_lines' = [result_lines EXCEPT ![w] = s.lines]
    /\ monitor_alive' = [monitor_alive EXCEPT ![w] = ~s.raised]
    /\ unclaimed_block' = [unclaimed_block EXCEPT ![w] = s.unclaimed]

ProcessLines(w, lines) == AfterBatch(w, WalkLines(StartOfBatch(w), lines))

\* The batches of lines one capture can hand over: any single line, a whole
\* sentinel block (empty, or around a result), and a block with a number as
\* its payload that follows a line of plain output.
Batches ==
    {<<l>> : l \in PaneLines}
        \cup {<<LineStart, LineEnd>>,
              <<LineStart, LineOk, LineEnd>>,
              <<LineNoise, LineStart, LineNum, LineEnd>>}

\* One iteration of _monitor_loop in which the capture returns new text.
MonitorTick(w, lines) ==
    /\ monitor_alive[w]
    /\ ProcessLines(w, lines)
    /\ UNCHANGED <<runnerVars, registryVars, ptyVars, flowVars>>

\* One iteration of _monitor_loop in which capture_pane raises
\* TmuxCommandError: nothing catches it and the monitor task ends.
MonitorCaptureFails(w) ==
    /\ monitor_alive[w]
    /\ monitor_alive' = [monitor_alive EXCEPT ![w] = FALSE]
    /\ UNCHANGED <<storeVars, runnerVars, running_tasks, collecting_task_id, result_lines,
                   unclaimed_block, registryVars, ptyVars, flowVars>>

\* -------------------------------------------------------- RuntimeRegistry

\* A caller starts a call for worker id w: bootstrap and create_worker call
\* ensure_runtime, create_task first reads the registry without the lock.
EnsureCall(c, w) ==
    /\ ensure_pc[c] = "idle"
    /\ ensure_worker' = [ensure_worker EXCEPT ![c] = w]
    /\ ensure_pc' = [ensure_pc EXCEPT ![c] = IF c = "create_task" THEN "get" ELSE "acquire"]
    /\ UNCHANGED <<runtimes, instances, monitors, lock_holder, ensure_runtime>>
    /\ UNCHANGED <<storeVars, runnerVars, runtimeVars, flowVars, ptyVars>>

\* create_task lines 62-64: RuntimeRegistry.get, and ensure_runtime only when
\* it found nothing.
RegistryGet(c) ==
    /\ ensure_pc[c] = "get"
    /\ ensure_runtime' = [ensure_runtime EXCEPT ![c] = runtimes[ensure_worker[c]]]
    /\ ensure_pc' = [ensure_pc EXCEPT ![c] =
                         IF runtimes[ensure_worker[c]] # NoRuntime THEN "returned" ELSE "acquire"]
    /\ UNCHANGED <<runtimes, instances, monitors, lock_holder, ensure_worker>>
    /\ UNCHANGED <<storeVars, runnerVars, runtimeVars, flowVars, ptyVars>>

\* Mutant: the lock is taken even while another caller holds it.
EnsureAcquireNoLock(c) ==
    /\ ensure_pc[c] = "acquire"
    /\ lock_holder' = c
    /\ ensure_pc' = [ensure_pc EXCEPT ![c] = "locked"]
    /\ UNCHANGED <<runtimes, instances, monitors, ensure_worker, ensure_runtime>>
    /\ UNCHANGED <<storeVars, runnerVars, runtimeVars, flowVars, ptyVars>>

\* `async with self._lock`: entered once no caller holds the lock.
EnsureAcquire(c) ==
    /\ ensure_pc[c] = "acquire"
    /\ lock_holder = None
    /\ lock_holder' = c
    /\ ensure_pc' = [ensure_pc EXCEPT ![c] = "locked"]
    /\ UNCHANGED <<runtimes, instances, monitors, ensure_worker, ensure_runtime>>
    /\ UNCHANGED <<storeVars, runnerVars, runtimeVars, flowVars, ptyVars>>

\* `runtime = self._runtimes.get(worker_id)`.
EnsureLookup(c) ==
    /\ ensure_pc[c] = "locked"
    /\ ensure_runtime' = [ensure_runtime EXCEPT ![c] = runtimes[ensure_worker[c]]]
    /\ ensure_pc' = [ensure_pc EXCEPT ![c] =
                         IF runtimes[ensure_worker[c]] = NoRuntime THEN "create" ELSE "release"]
    /\ UNCHANGED <<runtimes, instances, monitors, lock_holder, ensure_worker>>
    /\ UNCHANGED <<storeVars, runnerVars, runtimeVars, flowVars, ptyVars>>

\* `if runtime is None`: a WorkerRuntime is constructed, stored under the
\* worker id and started (start creates the monitor task of a runtime that has
\* none).
EnsureCreate(c) ==
    /\ ensure_pc[c] = "create"
    /\ Len(instances) < MaxRuntimes
    /\ instances' = Append(instances, ensure_worker[c])
    /\ monitors' = Append(monitors, 1)
    /\ runtimes' = [runtimes EXCEPT ![ensure_worker[c]] = Len(instances) + 1]
    /\ ensure_runtime' = [ensure_runtime EXCEPT ![c] = Len(instances) + 1]
    /\ ensure_pc' = [ensure_pc EXCEPT ![c] = "release"]
    /\ UNCHANGED <<lock_holder, ensure_worker>>
    /\ UNCHANGED <<storeVars, runnerVars, runtimeVars, flowVars, ptyVars>>

\* The end of the `async with` block and `return runtime`.
EnsureRelease(c) ==
    /\ ensure_pc[c] = "release"
    /\ lock_holder' = IF lock_holder = c THEN None ELSE lock_holder
    /\ ensure_pc' = [ensure_pc EXCEPT ![c] = "returned"]
    /\ UNCHANGED <<runtimes, instances, monitors, ensure_worker, ensure_runtime>>
    /\ UNCHANGED <<storeVars, runnerVars, runtimeVars, flowVars, ptyVars>>

\* The caller has its runtime and goes on; it may call again later.
EnsureDone(c) ==
    /\ ensure_pc[c] = "returned"
    /\ ensure_pc' = [ensure_pc EXCEPT ![c] = "idle"]
    /\ ensure_runtime' = [ensure_runtime EXCEPT ![c] = NoRuntime]
    /\ UNCHANGED <<runtimes, instances, monitors, lock_holder, ensure_worker>>
    /\ UNCHANGED <<storeVars, runnerVars, runtimeVars, flowVars, ptyVars>>

\* The process at startup, before bootstrap has run: an empty registry.
InitRegistry ==
    /\ runtimes = [w \in RegistryWorkerIds |-> NoRuntime]
    /\ instances = <<>>
    /\ monitors = <<>>
    /\ lock_holder = None
    /\ ensure_pc = [c \in Callers |-> "idle"]
    /\ ensure_worker = [c \in Callers |-> "w1"]
    /\ ensure_runtime = [c \in Callers |-> NoRuntime]
    /\ NoCoordinator
    /\ NoPty
    /\ tasks = <<>>
    /\ workers = [w \in WorkerIds |-> [status |-> "idle"]]
    /\ flows = [f \in FlowIds |-> [status |-> "running", result |-> [kind |-> "None"]]]
    /\ events = [i \in TaskIds |-> <<>>]
    /\ next_id = 1
    /\ spec_files = {}
    /\ create_pc = [i \in TaskIds |-> "none"]
    /\ running_tasks = [w \in WorkerIds |-> <<>>]
    /\ collecting_task_id = [w \in WorkerIds |-> NoTask]
    /\ result_lines = [w \in WorkerIds |-> <<>>]
    /\ monitor_alive = [w \in WorkerIds |-> TRUE]
    /\ unclaimed_block = [w \in WorkerIds |-> FALSE]

NextRegistry ==
    \/ \E c \in Callers, w \in RegistryWorkerIds : EnsureCall(c, w)
    \/ \E c \in Callers : RegistryGet(c)
    \/ \E c \in Callers : EnsureAcquire(c)
    \/ \E c \in Callers : EnsureLookup(c)
    \/ \E c \in Callers : EnsureCreate(c)
    \/ \E c \in Callers : EnsureRelease(c)
    \/ \E c \in Callers : EnsureDone(c)

SpecRegistry == InitRegistry /\ [][NextRegistry]_vars

\* ------------------------------------------- DesignRefinementCoordinator

\* What the critic reads of design.md: its number of "#" characters and of
\* whitespace-separated words. The coder tool rewrites the file while its
\* task runs, so each reading may find any of these.
Designs ==
    {[headings |-> 1, words |-> 3],
     [headings |-> 4, words |-> 240],
     [headings |-> 7, words |-> 450]}

\* The min_score values a flow is started with.
MinScores == {6, 10}

Min(a, b) == IF a <= b THEN a ELSE b

\* Mutant: the score is not capped at 10.
CarmackCriticUncapped(content, i) ==
    [score |-> 4 + content.headings + (content.words \div 200), iteration |-> i]

\* _run_carmack_critic: the score and the iteration of the critic's result.
CarmackCritic(content, i) ==
    [score |-> Min(10, 4 + content.headings + (content.words \div 200)), iteration |-> i]

\* The task _run is waiting for.
CoderTask(f) == coder_tasks[f][Len(coder_tasks[f])]

\* POST /flows/design-refinement: the Flow row is committed as running and
\* the coordinator's _run task is created; _run reads the row and writes the
\* initial design.md.
StartDesignFlow(f, w, max_iterations, min_score) ==
    /\ f \notin DOMAIN flows
    /\ w \in DOMAIN workers
    /\ flows' = (f :> [status |-> "running", result |-> [kind |-> "None"]]) @@ flows
    /\ flow_config' = [flow_config EXCEPT ![f] =
                           [worker_id |-> w, max_iterations |-> max_iterations,
                            min_score |-> min_score]]
    /\ flow_pc' = [flow_pc EXCEPT ![f] = "loop"]
    /\ iteration' = [iteration EXCEPT ![f] = 0]
    /\ UNCHANGED <<tasks, workers, events, runnerVars, runtimeVars, registryVars, ptyVars,
                   coder_tasks, critic_result, flow_iterations>>

\* Mutant: the loop runs one iteration more than max_iterations.
FlowHasNextOneMore(f) == iteration[f] < flow_config[f].max_iterations + 1

\* `for iteration in range(1, config["max_iterations"] + 1)`: whether the
\* loop has another iteration.
FlowHasNext(f) == iteration[f] < flow_config[f].max_iterations

\* _run lines 38-43: the next iteration begins and create_task is called for
\* its coder task (tool "codex", the flow's id).
FlowCreateTask(f) ==
    /\ flow_pc[f] = "loop"
    /\ FlowHasNext(f)
    /\ next_id <= MaxTasks
    /\ CreateTaskBegin(flow_config[f].worker_id, "codex", f)
    /\ iteration' = [iteration EXCEPT ![f] = @ + 1]
    /\ coder_tasks' = [coder_tasks EXCEPT ![f] = Append(@, next_id)]
    /\ flow_pc' = [flow_pc EXCEPT ![f] = "wait"]
    /\ UNCHANGED <<flow_config, critic_result, flow_iterations>>

\* Mutant: only the status is written.
MarkFailedStatusOnly(fl, f, reason, details) ==
    IF f \in DOMAIN fl THEN [fl EXCEPT ![f].status = "failed"] ELSE fl

\* _mark_failed: status and result are written, whatever they were.
MarkFailed(fl, f, reason, details) ==
    IF f \in DOMAIN fl
    THEN [fl EXCEPT ![f] = [status |-> "failed",
                            result |-> [kind |-> "dict", reason |-> reason,
                                        details |-> details]]]
    ELSE fl

\* _mark_completed: status and result are written, whatever they were.
MarkCompleted(fl, f, i, critic) ==
    IF f \in DOMAIN fl
    THEN [fl EXCEPT ![f] = [status |-> "completed",
                            result |-> [kind |-> "dict", final_iteration |-> i,
                                        critic |-> critic]]]
    ELSE fl

\* Mutant: the poll returns for a completed task only.
WaitReturnsCompletedOnly(f) ==
    /\ flow_pc[f] = "wait"
    /\ create_pc[CoderTask(f)] = "done"
    /\ CoderTask(f) \in DOMAIN tasks
    /\ tasks[CoderTask(f)].status = "completed"

\* wait_for_task_completion: create_task has returned and a poll finds the
\* task row completed or failed.
WaitReturns(f) ==
    /\ flow_pc[f] = "wait"
    /\ create_pc[CoderTask(f)] = "done"
    /\ CoderTask(f) \in DOMAIN tasks
    /\ tasks[CoderTask(f)].status \in {"completed", "failed"}

\* _run lines 44-47: the coder task ended failed; the flow is marked failed
\* and _run returns.
FlowCoderFailed(f) ==
    /\ WaitReturns(f)
    /\ tasks[CoderTask(f)].status = "failed"
    /\ flows' = MarkFailed(flows, f, "coder_task_failed",
                           [kind |-> "dict", task_id |-> CoderTask(f)])
    /\ flow_pc' = [flow_pc EXCEPT ![f] = "done"]
    /\ UNCHANGED <<tasks, workers, events, runnerVars, runtimeVars, registryVars, ptyVars,
                   flow_config, iteration, coder_tasks, critic_result, flow_iterations>>

\* _run lines 44-48: the coder task ended completed; the critic scores what
\* design.md holds now.
FlowCritic(f, content) ==
    /\ WaitReturns(f)
    /\ tasks[CoderTask(f)].status # "failed"
    /\ critic_result' = [critic_result EXCEPT ![f] = CarmackCritic(content, iteration[f])]
    /\ flow_pc' = [flow_pc EXCEPT ![f] = "record"]
    /\ UNCHANGED <<storeVars, runnerVars, runtimeVars, registryVars, ptyVars,
                   flow_config, iteration, coder_tasks, flow_iterations>>

\* Mutant: the row carries a 0-based index.
FlowRecordIterationZeroBased(f) ==
    /\ flow_pc[f] = "record"
    /\ flow_iterations' =
           [flow_iterations EXCEPT ![f] =
                Append(@, [iteration_index |-> iteration[f] - 1,
                           coder_task_id |-> CoderTask(f),
                           critic_task_payload |-> critic_result[f]])]
    /\ flow_pc' = [flow_pc EXCEPT ![f] = "decide"]
    /\ UNCHANGED <<storeVars, runnerVars, runtimeVars, registryVars, ptyVars,
                   flow_config, iteration, coder_tasks, critic_result>>

\* _record_iteration: a FlowIteration row for this iteration is committed.
FlowRecordIteration(f) ==
    /\ flow_pc[f] = "record"
    /\ flow_iterations' =
           [flow_iterations EXCEPT ![f] =
                IF f \in DOMAIN flows
                THEN Append(@, [iteration_index |-> iteration[f],
                                coder_task_id |-> CoderTask(f),
                                critic_task_payload |-> critic_result[f]])
                ELSE @]
    /\ flow_pc' = [flow_pc EXCEPT ![f] = "decide"]
    /\ UNCHANGED <<storeVars, runnerVars, runtimeVars, registryVars, ptyVars,
                   flow_config, iteration, coder_tasks, critic_result>>

\* _run lines 50-52: the score reaches min_score; the flow is marked
\* completed and _run returns. Otherwise the loop goes on.
FlowDecide(f) ==
    /\ flow_pc[f] = "decide"
    /\ IF critic_result[f].score >= flow_config[f].min_score
       THEN /\ flows' = MarkCompleted(flows, f, iteration[f], critic_result[f])
            /\ flow_pc' = [flow_pc EXCEPT ![f] = "done"]
       ELSE /\ flow_pc' = [flow_pc EXCEPT ![f] = "loop"]
            /\ UNCHANGED flows
    /\ UNCHANGED <<tasks, workers, events, runnerVars, runtimeVars, registryVars, ptyVars,
                   flow_config, iteration, coder_tasks, critic_result, flow_iterations>>

\* _run line 53: the loop is over; the flow is marked failed.
FlowExhausted(f) ==
    /\ flow_pc[f] = "loop"
    /\ ~FlowHasNext(f)
    /\ flows' = MarkFailed(flows, f, "max_iterations_reached", [kind |-> "None"])
    /\ flow_pc' = [flow_pc EXCEPT ![f] = "done"]
    /\ UNCHANGED <<tasks, workers, events, runnerVars, runtimeVars, registryVars, ptyVars,
                   flow_config, iteration, coder_tasks, critic_result, flow_iterations>>

\* The process with no flow started yet.
InitFlow ==
    /\ Bootstrapped
    /\ NoCoordinator
    /\ NoPty
    /\ tasks = <<>>
    /\ workers = [w \in WorkerIds |-> [status |-> "idle"]]
    /\ flows = <<>>
    /\ events = [i \in TaskIds |-> <<>>]
    /\ next_id = 1
    /\ spec_files = {}
    /\ create_pc = [i \in TaskIds |-> "none"]
    /\ running_tasks = [w \in WorkerIds |-> <<>>]
    /\ collecting_task_id = [w \in WorkerIds |-> NoTask]
    /\ result_lines = [w \in WorkerIds |-> <<>>]
    /\ monitor_alive = [w \in WorkerIds |-> TRUE]
    /\ unclaimed_block = [w \in WorkerIds |-> FALSE]

\* The captures the flow specifications hand to the monitor: a block around
\* an ok result, an empty block, and a block with a reported failure that
\* arrives line by line.
FlowBatches ==
    {<<LineStart, LineOk, LineEnd>>, <<LineStart, LineEnd>>,
     <<LineStart>>, <<LineFailed>>, <<LineEnd>>}

NextFlow ==
    \/ \E f \in FlowIds, w \in WorkerIds, n \in 0..MaxFlowIterations, m \in MinScores :
           StartDesignFlow(f, w, n, m)
    \/ \E f \in FlowIds : FlowCreateTask(f)
    \/ \E f \in FlowIds : FlowCoderFailed(f)
    \/ \E f \in FlowIds, content \in Designs : FlowCritic(f, content)
    \/ \E f \in FlowIds : FlowRecordIteration(f)
    \/ \E f \in FlowIds : FlowDecide(f)
    \/ \E f \in FlowIds : FlowExhausted(f)
    \/ \E w \in WorkerIds, f \in FlowIds : CreateWorkerTask(w, "codex", f)
    \/ \E id \in TaskIds : CreateTaskCommit(id)
    \/ \E id \in TaskIds : CreateTaskEnqueue(id)
    \/ \E w \in WorkerIds, lines \in FlowBatches : MonitorTick(w, lines)

\* The coordinator, create_task and the monitor, with API clients that create
\* tasks carrying a flow's id.
SpecFlow == InitFlow /\ [][NextFlow]_vars

NextCoordinator ==
    \/ \E f \in FlowIds, w \in WorkerIds, n \in 0..MaxFlowIterations, m \in MinScores :
           StartDesignFlow(f, w, n, m)
    \/ \E f \in FlowIds : FlowCreateTask(f)
    \/ \E f \in FlowIds : FlowCoderFailed(f)
    \/ \E f \in FlowIds, content \in Designs : FlowCritic(f, content)
    \/ \E f \in FlowIds : FlowRecordIteration(f)
    \/ \E f \in FlowIds : FlowDecide(f)
    \/ \E f \in FlowIds : FlowExhausted(f)
    \/ \E id \in TaskIds : CreateTaskCommit(id)
    \/ \E id \in TaskIds : CreateTaskEnqueue(id)
    \/ \E w \in WorkerIds, lines \in Batches : MonitorTick(w, lines)
    \/ \E w \in WorkerIds : MonitorCaptureFails(w)

\* The coordinator as the only creator of tasks.
SpecCoordinator == InitFlow /\ [][NextCoordinator]_vars

\* The event loop runs every coroutine that can go on: a coordinator's _run
\* (its poll comes round every second) and a create_task call take their next
\* step. Nothing is assumed of the pane's output or of the monitor.
FairCoordinator ==
    /\ \A f \in FlowIds :
           /\ WF_vars(FlowCreateTask(f))
           /\ WF_vars(FlowCoderFailed(f))
           /\ WF_vars(\E content \in Designs : FlowCritic(f, content))
           /\ WF_vars(FlowRecordIteration(f))
           /\ WF_vars(FlowDecide(f))
           /\ WF_vars(FlowExhausted(f))
    /\ \A id \in TaskIds :
           /\ WF_vars(CreateTaskCommit(id))
           /\ WF_vars(CreateTaskEnqueue(id))

SpecCoordinatorFair == SpecCoordinator /\ FairCoordinator

\* ------------------------------------------------------- watcher daemon

\* The watcher is a process of its own: the orchestrator's store and
\* runtimes stay as bootstrap left them.
Orchestrator ==
    /\ Bootstrapped
    /\ NoCoordinator
    /\ tasks = <<>>
    /\ workers = [w \in WorkerIds |-> [status |-> "idle"]]
    /\ flows = [f \in FlowIds |-> [status |-> "running", result |-> [kind |-> "None"]]]
    /\ events = [i \in TaskIds |-> <<>>]
    /\ next_id = 1
    /\ spec_files = {}
    /\ create_pc = [i \in TaskIds |-> "none"]
    /\ running_tasks = [w \in WorkerIds |-> <<>>]
    /\ collecting_task_id = [w \in WorkerIds |-> NoTask]
    /\ result_lines = [w \in WorkerIds |-> <<>>]
    /\ monitor_alive = [w \in WorkerIds |-> TRUE]
    /\ unclaimed_block = [w \in WorkerIds |-> FALSE]

orchestratorVars == <<storeVars, runnerVars, runtimeVars, registryVars, flowVars>>

\* ANSI_ESCAPE_RE matches the CSI sequences; other pieces of a raw capture
\* are text.
AnsiEscapes == {"ESC[31m", "ESC[0m"}

\* strip_ansi: the matches are removed.
StripAnsi(text) == SelectSeq(text, LAMBDA piece : piece \notin AnsiEscapes)

\* sha256(...).hexdigest(): equal for equal texts only.
Sha256(text) == [known |-> TRUE, digest |-> text]
\* The None of a hash field.
NoHash == [known |-> FALSE, digest |-> <<>>]

\* PaneState(threshold=...): the field defaults.
PaneState(threshold, ts) ==
    [last_snapshot_hash |-> NoHash, last_classified_hash |-> NoHash, stable_count |-> 0,
     last_change_ts |-> ts, state |-> "UNKNOWN", summary |-> "", actions_needed |-> None,
     threshold |-> threshold]

\* ClassifierPack.load: `int(raw.get("stability_polls") or default)`; 0
\* stands for a pack without the member, or with 0.
LoadStabilityPolls(raw) == IF raw # 0 THEN raw ELSE WatcherDefaultStability
RawStabilityPolls == {0, 1, 2}

\* self.state.setdefault(pane_id, PaneState(...)).
SetDefault(states, pane, threshold, ts) ==
    IF pane \in DOMAIN states THEN states[pane] ELSE PaneState(threshold, ts)

\* Mutant: a changed screen leaves the stable count as it was.
ChangedKeepsCount(ps, snapshot_hash, ts) ==
    [ps EXCEPT !.last_snapshot_hash = snapshot_hash, !.last_change_ts = ts,
               !.state = "BUSY", !.summary = "Pane output changing", !.actions_needed = None]

\* _process_pane lines 396-402: the screen changed.
Changed(ps, snapshot_hash, ts) ==
    [ps EXCEPT !.last_snapshot_hash = snapshot_hash, !.stable_count = 0, !.last_change_ts = ts,
               !.state = "BUSY", !.summary = "Pane output changing", !.actions_needed = None]

\* Line 405: `pane_state.threshold or settings.watcher_default_stability`.
Threshold(ps) == IF ps.threshold # 0 THEN ps.threshold ELSE WatcherDefaultStability

\* Mutant: the classifier runs one cycle before the threshold is reached.
ShouldClassifyEarly(ps, snapshot_hash) ==
    ps.stable_count + 1 >= Threshold(ps) /\ ps.last_classified_hash # snapshot_hash

\* Line 406, on the state whose stable_count is already incremented.
ShouldClassify(ps, snapshot_hash) ==
    ps.stable_count >= Threshold(ps) /\ ps.last_classified_hash # snapshot_hash

\* Mutant: the classified hash is not remembered.
ClassifiedForgetsHash(ps, result, snapshot_hash) ==
    [ps EXCEPT !.state = result.state, !.summary = result.summary,
               !.actions_needed = result.actions_needed]

\* Lines 416-419: the result is stored with the hash it was made for.
Classified(ps, result, snapshot_hash) ==
    [ps EXCEPT !.state = result.state, !.summary = result.summary,
               !.actions_needed = result.actions_needed,
               !.last_classified_hash = snapshot_hash]

\* The watcher runs without an API key (settings.openrouter_api_key is
\* None), so its HybridClassifier has no remote classifier.
WatcherClassify(stripped) ==
    HybridClassify(Pack, stripped, FALSE, [kind |-> "unused", message |-> <<>>])

\* Lines 403-419, on the state whose stable_count is already incremented.
MaybeClassified(ps, stripped, snapshot_hash) ==
    IF ShouldClassify(ps, snapshot_hash)
    THEN Classified(ps, WatcherClassify(stripped), snapshot_hash)
    ELSE ps

\* Lines 396-419: the PaneState after the comparison of the hashes.
Compared(ps, stripped, snapshot_hash, ts) ==
    IF ps.last_snapshot_hash # snapshot_hash
    THEN Changed(ps, snapshot_hash, ts)
    ELSE MaybeClassified([ps EXCEPT !.stable_count = @ + 1], stripped, snapshot_hash)

\* Whether lines 396-419 call the classifier.
Classifies(ps, snapshot_hash) ==
    /\ ps.last_snapshot_hash = snapshot_hash
    /\ ShouldClassify([ps EXCEPT !.stable_count = @ + 1], snapshot_hash)

\* f with x mapped to v.
Put(f, x, v) == [y \in DOMAIN f \cup {x} |-> IF y = x THEN v ELSE f[y]]

\* _write_status and StatusStore.upsert: status.json of the worker, the
\* status row of the pane, and one more status_history row.
WriteStatus(w, worker_id, pane, ps, snapshot_hash, ts) ==
    [w EXCEPT
        !.status_file[worker_id] =
            [worker_id |-> worker_id, pane_id |-> pane, state |-> ps.state,
             summary |-> ps.summary, actions_needed |-> ps.actions_needed,
             last_change_ts |-> ps.last_change_ts, last_polled_ts |-> ts],
        !.status_rows =
            Put(@, pane,
                [state |-> ps.state, summary |-> ps.summary,
                 actions_needed |-> ps.actions_needed, last_snapshot_hash |-> snapshot_hash,
                 last_change_ts |-> ps.last_change_ts, last_polled_ts |-> ts,
                 stable_count |-> ps.stable_count]),
        !.status_history =
            Append(@, [id |-> pane, ts |-> ts, state |-> ps.state, summary |-> ps.summary])]

\* The watcher's state while a cycle runs.
Watcher ==
    [pane_state |-> pane_state, status_rows |-> status_rows, status_history |-> status_history,
     status_file |-> status_file, last_poll |-> last_poll, classify_log |-> classify_log]

\* The history of the cycle for one processed pane.
Logged(w, pane, ps, snapshot_hash, ts) ==
    [w EXCEPT
        !.last_poll[pane] =
            [presence |-> "worker", hash |-> snapshot_hash,
             classified |-> Classifies(ps, snapshot_hash)],
        !.classify_log[pane] =
            IF Classifies(ps, snapshot_hash)
            THEN Append(@, [hash |-> snapshot_hash, ts |-> ts])
            ELSE @]

\* _process_pane, from the PaneState that setdefault returned.
ProcessFrom(w, worker_id, pane, ps, stripped, snapshot_hash, ts) ==
    WriteStatus([Logged(w, pane, ps, snapshot_hash, ts) EXCEPT
                     !.pane_state = Put(@, pane, Compared(ps, stripped, snapshot_hash, ts))],
                worker_id, pane, Compared(ps, stripped, snapshot_hash, ts), snapshot_hash, ts)

\* _process_pane.
ProcessPane(w, worker_id, pane, text, threshold, ts) ==
    ProcessFrom(w, worker_id, pane, SetDefault(w.pane_state, pane, threshold, ts),
                StripAnsi(text), Sha256(StripAnsi(text)), ts)

\* The loop body of _poll_once for one listed pane: a pane whose session
\* names no worker is skipped.
VisitPane(w, pane, seen, threshold, ts) ==
    IF seen.presence = "worker"
    THEN ProcessPane(w, "w1", pane, seen.text, threshold, ts)
    ELSE [w EXCEPT !.last_poll[pane] = [presence |-> seen.presence]]

\* The for loop of _poll_once over the pane ids in listing order.
RECURSIVE VisitPanes(_, _, _, _, _)
VisitPanes(w, panes, listing, threshold, ts) ==
    IF panes = <<>> THEN w
    ELSE VisitPanes(VisitPane(w, Head(panes), listing[Head(panes)], threshold, ts),
                    Tail(panes), listing, threshold, ts)

\* Mutant: no cache entry is removed.
PurgedNothing(states, listing) == states

\* Lines 382-386: the entries of panes not seen in this cycle are deleted.
Purged(states, listing) ==
    [p \in {q \in DOMAIN states : listing[q].presence = "worker"} |-> states[p]]

\* What a cycle can find for a pane: tmux does not list it, it is listed in
\* a session that names no worker, or it is a worker's pane and shows a text.
Gone == [presence |-> "gone", text |-> <<>>]
Foreign == [presence |-> "foreign", text |-> <<>>]
Shows(text) == [presence |-> "worker", text |-> text]
RawScreens == {<<"$">>, <<"ESC[31m", "$", "ESC[0m">>, <<"Traceback">>}
Listings ==
    {[p \in PaneIds |-> IF p = "%1" THEN a ELSE b] :
        a \in {Gone, Foreign} \cup {Shows(t) : t \in RawScreens},
        b \in {Gone, Shows(<<"$">>)}}

\* The watcher after the loop and the purge of a cycle.
AfterPoll(w, listing) ==
    /\ pane_state' = Purged(w.pane_state, listing)
    /\ status_rows' = w.status_rows
    /\ status_history' = w.status_history
    /\ status_file' = w.status_file
    /\ last_poll' = w.last_poll
    /\ classify_log' = w.classify_log

\* One _poll_once call: no await inside yields to another task.
PollOnce(listing) ==
    /\ cycle < MaxCycles
    /\ cycle' = cycle + 1
    /\ AfterPoll(VisitPanes(Watcher, <<"%1", "%2">>, listing, stability_polls, cycle + 1),
                 listing)
    /\ UNCHANGED <<stability_polls, classifierVars, emulatorVars, tmuxVars, orchestratorVars>>

InitWatcher ==
    /\ Orchestrator
    /\ NoTmux /\ pane_script = <<>>
    /\ NoWatcher
    /\ NoClassifier
    /\ NoEmulator
    /\ stability_polls \in {LoadStabilityPolls(raw) : raw \in RawStabilityPolls}

NextWatcher == \E listing \in Listings : PollOnce(listing)

SpecWatcher == InitWatcher /\ [][NextWatcher]_vars

\* _capture_pane_text when tmux capture-pane exits non-zero: the error is
\* logged and the empty string returned in place of the pane's text.
CaptureFailed == [presence |-> "worker", text |-> <<>>, failed |-> TRUE]

\* The cycles of a watcher whose captures may fail.
CaptureListings ==
    {[p \in PaneIds |-> IF p = "%1" THEN a ELSE Gone] :
        a \in {Gone, CaptureFailed, Shows(<<"$">>), Shows(<<"Traceback">>)}}

NextWatcherCapture == \E listing \in CaptureListings : PollOnce(listing)

SpecWatcherCapture == InitWatcher /\ [][NextWatcherCapture]_vars

\* A call of HybridClassifier.classify is about to start: any snapshot, with
\* or without an API key, and whatever the endpoint will do.
InitClassifier ==
    /\ Orchestrator
    /\ NoTmux /\ pane_script = <<>>
    /\ NoWatcher
    /\ NoEmulator
    /\ stability_polls = WatcherDefaultStability
    /\ classify_call \in [snapshot : Snapshots, llm : BOOLEAN, remote : RemoteOutcomes]
    /\ classify_result = [kind |-> "None"]

\* The call runs to its end.
HybridClassifierClassify ==
    /\ classify_result.kind = "None"
    /\ classify_result' = HybridClassify(Pack, classify_call.snapshot, classify_call.llm,
                                         classify_call.remote)
    /\ UNCHANGED <<classify_call, watcherVars, emulatorVars, tmuxVars, orchestratorVars>>

NextClassifier == HybridClassifierClassify

SpecClassifier == InitClassifier /\ [][NextClassifier]_vars

\* ------------------------------------------------------ TerminalEmulator

\* A raw text is the sequence of its characters; "ESC", "CR" and "LF" stand
\* for \x1b, \r and \n.

\* _ensure_crlf: a line feed that does not follow a carriage return gets one.
RECURSIVE EnsureCrlfFrom(_, _)
EnsureCrlfFrom(prev, raw_text) ==
    IF raw_text = <<>> THEN <<>>
    ELSE (IF Head(raw_text) = "LF" /\ prev # "CR" THEN <<"CR", "LF">> ELSE <<Head(raw_text)>>)
             \o EnsureCrlfFrom(Head(raw_text), Tail(raw_text))
EnsureCrlf(raw_text) == EnsureCrlfFrom("", raw_text)

\* pyte.Screen.index: the cursor moves down a row; on the last row the
\* screen scrolls and the top row is lost.
Index(e) ==
    IF e.y = TerminalHeight
    THEN [e EXCEPT !.rows = [r \in 1..TerminalHeight |->
                                 IF r < TerminalHeight THEN e.rows[r + 1] ELSE BlankRow]]
    ELSE [e EXCEPT !.y = @ + 1]

\* The character lands on the cursor, which moves right.
DrawAt(e, ch) == [e EXCEPT !.rows[e.y][e.x + 1] = ch, !.x = @ + 1]

\* pyte.Screen.draw: past the last column the text wraps to the next row.
Draw(e, ch) ==
    IF e.x = TerminalWidth THEN DrawAt(Index([e EXCEPT !.x = 0]), ch) ELSE DrawAt(e, ch)

\* pyte.Screen.carriage_return.
CarriageReturn(e) == [e EXCEPT !.x = 0]

CsiParameters == {"0", "1", "2", "3", "4", "5", "6", "7", "8", "9", ";"}

\* pyte.Stream fed one character: plain text is drawn and controls are
\* executed; ESC opens an escape sequence, ESC [ a control sequence, which
\* its final character closes. The sequences of the raw texts below are SGR
\* ones (final m): they change no cell and leave the cursor alone.
FeedChar(e, ch) ==
    IF e.parser = "ground"
    THEN IF ch = "ESC" THEN [e EXCEPT !.parser = "escape"]
         ELSE IF ch = "CR" THEN CarriageReturn(e)
         ELSE IF ch = "LF" THEN Index(e)
         ELSE Draw(e, ch)
    ELSE IF e.parser = "escape"
    THEN [e EXCEPT !.parser = IF ch = "[" THEN "csi" ELSE "ground"]
    ELSE IF ch \in CsiParameters THEN e
         ELSE IF ch = "CR" THEN CarriageReturn(e)
         ELSE IF ch = "LF" THEN Index(e)
         ELSE [e EXCEPT !.parser = "ground"]

\* pyte.Stream.feed: the parser goes on from where the last feed left it.
RECURSIVE Feed(_, _)
Feed(e, text) == IF text = <<>> THEN e ELSE Feed(FeedChar(e, Head(text)), Tail(text))

\* str.rstrip() of a row.
RECURSIVE RStrip(_)
RStrip(row) ==
    IF row = <<>> THEN <<>>
    ELSE IF row[Len(row)] = " " THEN RStrip(SubSeq(row, 1, Len(row) - 1))
    ELSE row

\* Lines 27-28: trailing empty rows are popped.
RECURSIVE DropTrailingBlank(_)
DropTrailingBlank(lines) ==
    IF lines = <<>> THEN <<>>
    ELSE IF lines[Len(lines)] = <<>> THEN DropTrailingBlank(SubSeq(lines, 1, Len(lines) - 1))
    ELSE lines

\* "\n".join(lines).
RECURSIVE JoinRows(_)
JoinRows(lines) ==
    IF lines = <<>> THEN <<>>
    ELSE IF Len(lines) = 1 THEN lines[1]
    ELSE lines[1] \o <<"LF">> \o JoinRows(Tail(lines))

\* Lines 25-29 of render: the text of screen.display.
DisplayText(e) ==
    JoinRows(DropTrailingBlank([r \in 1..TerminalHeight |->
                                    RStrip([c \in 1..TerminalWidth |-> e.rows[r][c]])]))

\* The emulator after lines 23-24 of render: the screen is reset, the stream
\* is not.
Fed(parser, raw_text) ==
    Feed([rows |-> ResetScreen.rows, x |-> ResetScreen.x, y |-> ResetScreen.y,
          parser |-> parser],
         EnsureCrlf(raw_text))

\* The raw texts handed to render: coloured text over two lines, a carriage
\* return followed by an overwrite, bare and CR-preceded line feeds, more
\* lines than rows, a line longer than a row, trailing blanks, and captures
\* cut in the middle of an escape sequence.
RawTexts ==
    {<<"ESC", "[", "3", "1", "m", "H", "i", "ESC", "[", "0", "m", "LF", "o", "k", "LF">>,
     <<"a", "b", "CR", "c">>,
     <<"a", "LF", "b">>,
     <<"a", "CR", "LF", "b">>,
     <<"a", "LF", "b", "LF", "c">>,
     <<"a", "b", "c", "d", "e">>,
     <<"a", " ", " ", "LF", "LF">>,
     <<>>,
     <<"1", "m">>,
     <<"a", "b", "ESC", "[">>,
     <<"m", "ESC", "[">>,
     <<"x", "ESC">>}

\* TerminalEmulator.render(raw_text).
Render(raw_text) ==
    /\ Len(rendered) < MaxRenders
    /\ screen' = [rows |-> Fed(stream_parser, raw_text).rows,
                  x |-> Fed(stream_parser, raw_text).x,
                  y |-> Fed(stream_parser, raw_text).y]
    /\ stream_parser' = Fed(stream_parser, raw_text).parser
    /\ rendered' = Append(rendered, [raw_text |-> raw_text,
                                     text |-> DisplayText(Fed(stream_parser, raw_text))])
    /\ UNCHANGED <<watcherVars, classifierVars, tmuxVars, orchestratorVars>>

InitEmulator ==
    /\ Orchestrator
    /\ NoTmux /\ pane_script = <<>>
    /\ NoWatcher
    /\ stability_polls = WatcherDefaultStability
    /\ NoClassifier
    /\ NoEmulator

NextEmulator == \E raw_text \in RawTexts : Render(raw_text)

SpecEmulator == InitEmulator /\ [][NextEmulator]_vars

\* ------------------------------------------------- TmuxController and pane

\* The pane's text is the sequence of its pieces and line ends. A sentinel is
\* written as two pieces that follow each other without a space, so that the
\* text can be cut inside it.
NL == [t |-> "nl", v |-> "\n"]
MarkerHead == Wd("<<<AGENT_RESULT_")
StartTail == Wd("START>>>")
EndTail == Wd("END>>>")
StartItems == <<MarkerHead, StartTail>>
EndItems == <<MarkerHead, EndTail>>

\* The pieces of one line as the monitor reads them: two halves of a sentinel
\* that follow each other are the sentinel.
RECURSIVE Glue(_)
Glue(line) ==
    IF Len(line) < 2 THEN line
    ELSE IF Head(line) = MarkerHead /\ line[2] = StartTail
    THEN <<Wd(sentinel_start)>> \o Glue(SubSeq(line, 3, Len(line)))
    ELSE IF Head(line) = MarkerHead /\ line[2] = EndTail
    THEN <<Wd(sentinel_end)>> \o Glue(SubSeq(line, 3, Len(line)))
    ELSE <<Head(line)>> \o Glue(Tail(line))

\* str.splitlines: the text between the line ends; a text that does not end
\* with a line end gives its rest as the last line.
RECURSIVE SplitLinesFrom(_, _, _)
SplitLinesFrom(text, current, done) ==
    IF text = <<>> THEN (IF current = <<>> THEN done ELSE Append(done, current))
    ELSE IF Head(text) = NL THEN SplitLinesFrom(Tail(text), <<>>, Append(done, current))
    ELSE SplitLinesFrom(Tail(text), Append(current, Head(text)), done)

SplitLines(text) == SplitLinesFrom(text, <<>>, <<>>)

\* `new_text.splitlines()` as the lines _process_lines walks.
LinesOf(text) == [i \in 1..Len(SplitLines(text)) |-> Glue(SplitLines(text)[i])]

\* Mutant: the text from the cursor on, whatever the length of the text.
NewTextFromCursor(text, size) == SubSeq(text, size + 1, Len(text))

\* capture_pane lines 47-51: the text from the cursor on, or the whole text
\* when it is shorter than the cursor.
NewText(text, size) ==
    IF size <= Len(text) THEN SubSeq(text, size + 1, Len(text)) ELSE text

\* PaneSnapshot(text, new_text), with the cursor the call started from.
PaneSnapshot(text, size) ==
    [text |-> text, new_text |-> NewText(text, size), cursor_before |-> size]

\* _process_lines on the lines of a capture; the bounds on a batch of the
\* other specifications do not apply to a pane.
ProcessCaptured(w, lines) ==
    AfterBatch(w, [WalkLines(StartOfBatch(w), lines) EXCEPT !.over = FALSE])

\* One iteration of _monitor_loop: capture_pane, and _process_lines when the
\* capture returned new text.
MonitorCapture(w) ==
    /\ monitor_alive[w]
    /\ snapshot' = [snapshot EXCEPT ![w] = PaneSnapshot(pane_text[w], last_size[w])]
    /\ last_size' = [last_size EXCEPT ![w] = Len(pane_text[w])]
    /\ IF NewText(pane_text[w], last_size[w]) # <<>>
       THEN ProcessCaptured(w, LinesOf(NewText(pane_text[w], last_size[w])))
       ELSE UNCHANGED <<storeVars, runtimeVars>>
    /\ UNCHANGED <<pane_text, pane_script, emitted, outputs, scrolls, sent>>
    /\ UNCHANGED <<runnerVars, registryVars, flowVars, watcherVars, classifierVars,
                   emulatorVars>>

\* create_task lines 62-66 with enqueue_task in full: the id is appended to
\* the FIFO and send_line types the command into the pane.
EnqueueAndSend(id) ==
    /\ create_pc[id] = "committed"
    /\ EnqueueTask(tasks[id].worker_id, id)
    /\ sent' = Append(sent, [task_id |-> id, at |-> emitted])
    /\ create_pc' = [create_pc EXCEPT ![id] = "done"]
    /\ UNCHANGED <<pane_text, last_size, snapshot, pane_script, emitted, outputs, scrolls>>
    /\ UNCHANGED <<storeVars, next_id, spec_files, registryVars, flowVars, watcherVars,
                   classifierVars, emulatorVars>>

\* The same with a tmux send-keys that exits non-zero: _run raises
\* TmuxCommandError out of send_line, enqueue_task and create_task, after the
\* append and after the commit.
EnqueueSendFails(id) ==
    /\ create_pc[id] = "committed"
    /\ EnqueueTask(tasks[id].worker_id, id)
    /\ create_pc' = [create_pc EXCEPT ![id] = "send_failed"]
    /\ UNCHANGED <<storeVars, next_id, spec_files, registryVars, flowVars, ptyVars>>

\* What the tools of a pane print: a line of plain output and a block with an
\* empty object; a block restarted after a line of plain text; a block whose
\* closing sentinel shares its line with the next opening one; a block whose
\* sentinels share their lines with other words.
Block(payload) == StartItems \o <<NL>> \o payload \o <<NL>> \o EndItems \o <<NL>>
ScriptBlock == LineNoise \o <<NL>> \o Block(LineEmptyObj)
ScriptRestart == StartItems \o <<NL>> \o LineNoise \o <<NL>> \o Block(LineOk)
ScriptSameLine ==
    StartItems \o <<NL>> \o LineEmptyObj \o <<NL>> \o EndItems \o StartItems \o <<NL>>
ScriptDecorated ==
    <<Wd("echo")>> \o StartItems \o <<NL>> \o LineEmptyObj \o <<NL>>
        \o <<Wd("echo")>> \o EndItems \o <<Wd("done"), NL>>
PaneScripts == {ScriptBlock, ScriptRestart, ScriptSameLine, ScriptDecorated}

\* The numbers of pieces one write of a tool can bring.
OutputSizes == UNION {1..Len(script) : script \in PaneScripts}

\* The tools print the next k pieces of their output; nothing is printed
\* before a command has reached the pane, and a line end is written together
\* with the piece before it.
PaneOutput(w, k) ==
    /\ sent # <<>>
    /\ outputs < MaxOutputs
    /\ emitted + k <= Len(pane_script)
    /\ emitted + k < Len(pane_script) => pane_script[emitted + k + 1] # NL
    /\ pane_text' = [pane_text EXCEPT ![w] = @ \o SubSeq(pane_script, emitted + 1, emitted + k)]
    /\ emitted' = emitted + k
    /\ outputs' = outputs + 1
    /\ UNCHANGED <<last_size, snapshot, pane_script, scrolls, sent>>
    /\ UNCHANGED <<orchestratorVars, watcherVars, classifierVars, emulatorVars>>

\* capture-pane prints the visible pane only: the top line scrolls out of it.
FirstLineEnd(text) == CHOOSE i \in 1..Len(text) : text[i] = NL /\ \A j \in 1..(i - 1) : text[j] # NL

PaneScroll(w) ==
    /\ scrolls < MaxScrolls
    /\ \E i \in 1..Len(pane_text[w]) : pane_text[w][i] = NL
    /\ pane_text' = [pane_text EXCEPT ![w] = SubSeq(@, FirstLineEnd(@) + 1, Len(@))]
    /\ scrolls' = scrolls + 1
    /\ UNCHANGED <<last_size, snapshot, pane_script, emitted, outputs, sent>>
    /\ UNCHANGED <<orchestratorVars, watcherVars, classifierVars, emulatorVars>>

InitPane ==
    /\ Orchestrator
    /\ NoWatcher /\ stability_polls = WatcherDefaultStability /\ NoClassifier /\ NoEmulator
    /\ NoTmux
    /\ pane_script \in PaneScripts

NextPane ==
    \/ \E w \in WorkerIds : CreateWorkerTask(w, "codex", None)
    \/ \E id \in TaskIds : CreateTaskCommit(id)
    \/ \E id \in TaskIds : EnqueueAndSend(id)
    \/ \E id \in TaskIds : EnqueueSendFails(id)
    \/ \E w \in WorkerIds, k \in OutputSizes : PaneOutput(w, k)
    \/ \E w \in WorkerIds : PaneScroll(w)
    \/ \E w \in WorkerIds : MonitorCapture(w)

SpecPane == InitPane /\ [][NextPane]_vars

\* ---------------------------------------------------------- specification

Next ==
    \/ \E w \in CallerWorkerIds, tool \in ToolNames, f \in FlowIds \cup {None} :
           CreateWorkerTask(w, tool, f)
    \/ \E id \in TaskIds : CreateTaskCommit(id)
    \/ \E id \in TaskIds : CreateTaskEnqueue(id)
    \/ \E w \in WorkerIds, lines \in Batches : MonitorTick(w, lines)
    \/ \E w \in WorkerIds : MonitorCaptureFails(w)

Spec == Init /\ [][Next]_vars

\* ------------------------------------------------------------ properties

Terminal == {"completed", "failed"}

NumOf(evs, type) == Cardinality({i \in 1..Len(evs) : evs[i].type = type})

\* The payload parsed to a JSON object.
IsObject(p) == p.ok /\ p.value.kind = "object"
StatusOf(p) == DictGet(p.value.fields, "status")

\* One step along queued -> running -> (completed | failed), or none.
TaskStep(a, b) ==
    \/ a = b
    \/ a = "queued" /\ b = "running"
    \/ a = "running" /\ b \in Terminal

\* C1: in every step, each task row keeps its status or moves one step along
\* queued -> running -> (completed | failed); a new row starts as queued and
\* no row disappears, so a status never moves backwards and a terminal
\* status never changes.
C1_StatusMonotone ==
    [][\A id \in TaskIds :
           /\ id \in DOMAIN tasks =>
                  /\ id \in DOMAIN tasks'
                  /\ TaskStep(tasks[id].status, tasks'[id].status)
           /\ (id \notin DOMAIN tasks /\ id \in DOMAIN tasks') =>
                  tasks'[id].status = "queued"]_vars

\* C1 witness: one task has ended completed and another failed.
C1_Witness ==
    \E a, b \in DOMAIN tasks :
        tasks[a].status = "completed" /\ tasks[b].status = "failed"

RunningOn(w) ==
    {id \in DOMAIN tasks :
         Committed(id) /\ tasks[id].worker_id = w /\ tasks[id].status = "running"}

\* C2: at most one committed task per worker has status running.
C2_AtMostOneRunning == \A w \in WorkerIds : Cardinality(RunningOn(w)) <= 1

\* Every task id in a FIFO is a task that has not reached a terminal status.
FifoPending ==
    \A w \in WorkerIds : \A i \in 1..Len(running_tasks[w]) :
        /\ running_tasks[w][i] \in DOMAIN tasks
        /\ tasks[running_tasks[w][i]].status \notin Terminal

\* A task that reaches a terminal status in a step was the FIFO head, and the
\* FIFO only grows at its tail or loses its head.
HeadFirst ==
    \A w \in WorkerIds :
        /\ \A id \in DOMAIN tasks :
               (tasks[id].worker_id = w /\ tasks[id].status \notin Terminal
                    /\ tasks'[id].status \in Terminal)
               => /\ running_tasks[w] # <<>>
                  /\ Head(running_tasks[w]) = id
                  /\ running_tasks'[w] = Tail(running_tasks[w])
        /\ \/ running_tasks'[w] = running_tasks[w]
           \/ \E id \in TaskIds : running_tasks'[w] = Append(running_tasks[w], id)
           \/ /\ running_tasks[w] # <<>>
              /\ running_tasks'[w] = Tail(running_tasks[w])
              /\ tasks'[Head(running_tasks[w])].status \in Terminal

\* C3: tasks of one worker reach a terminal status in the order in which
\* they were enqueued: the FIFO holds the tasks not yet finalised in enqueue
\* order, and only its head is ever finalised.
C3_FifoOrder == []FifoPending /\ [][HeadFirst]_vars

\* C3 witness: of two tasks enqueued on a worker, the first has been
\* finalised and the second still waits in the FIFO.
C3_Witness ==
    \E w \in WorkerIds : \E a, b \in DOMAIN tasks :
        /\ a # b
        /\ tasks[a].worker_id = w /\ tasks[a].status \in Terminal
        /\ running_tasks[w] = <<b>>

\* C4: a task has at most one result_parsed event, it has one exactly when
\* its status is completed or failed, and the event carries the result and
\* error written on the row.
C4_OneResultParsed ==
    \A id \in TaskIds :
        /\ NumOf(events[id], "result_parsed") <= 1
        /\ NumOf(events[id], "result_parsed") = 1
               <=> (id \in DOMAIN tasks /\ tasks[id].status \in Terminal)
        /\ \A i \in 1..Len(events[id]) :
               events[id][i].type = "result_parsed" =>
                   events[id][i].payload =
                       [result |-> tasks[id].result_json, error |-> tasks[id].error_message]

\* C4 witness: a failed task with its result_parsed event.
C4_Witness ==
    \E id \in DOMAIN tasks :
        tasks[id].status = "failed" /\ NumOf(events[id], "result_parsed") = 1

\* C5: in the events of a task, every stdout_chunk comes after the
\* state_change(running) event and none comes after the result_parsed event.
C5_EventOrder ==
    \A id \in TaskIds : \A i \in 1..Len(events[id]) :
        events[id][i].type = "stdout_chunk" =>
            /\ \E j \in 1..(i - 1) :
                   /\ events[id][j].type = "state_change"
                   /\ events[id][j].payload.state = "running"
            /\ \A j \in 1..(i - 1) : events[id][j].type # "result_parsed"

\* C5 witness: a task whose events are state_change, stdout_chunk,
\* result_parsed.
C5_Witness ==
    \E id \in TaskIds :
        /\ Len(events[id]) = 3
        /\ events[id][2].type = "stdout_chunk"
        /\ events[id][3].type = "result_parsed"

\* What a finalisation of task t with parsed value v as completed leaves.
CompletedWith(w, t, v) ==
    /\ tasks'[t].status = "completed"
    /\ tasks'[t].result_json = v
    /\ tasks'[t].error_message = None
    /\ ~InSeq(running_tasks'[w], t)
    /\ events'[t] = Append(events[t],
                           Event(t, "result_parsed", [result |-> v, error |-> None]))

\* C6: when sentinel_end is processed while task t is collected and the
\* buffered payload is a JSON object with status "ok", t becomes completed
\* with the parsed payload as result_json and no error message, leaves the
\* FIFO, and gets a result_parsed event; a whole block around
\* {"status":"ok","summary":"done"} does this to the FIFO head and leaves the
\* worker idle when the FIFO empties.
C6_OkCompletes ==
    [][\A w \in WorkerIds :
           /\ (/\ collecting_task_id[w] # NoTask
               /\ IsObject(JsonLoads(result_lines[w]))
               /\ StatusOf(JsonLoads(result_lines[w])) = "ok"
               /\ MonitorTick(w, <<LineEnd>>))
              => CompletedWith(w, collecting_task_id[w], JsonLoads(result_lines[w]).value)
           /\ (/\ running_tasks[w] # <<>>
               /\ MonitorTick(w, <<LineStart, LineOk, LineEnd>>))
              => /\ CompletedWith(w, Head(running_tasks[w]),
                                  JObject([status |-> "ok", summary |-> "done"]))
                 /\ workers'[w].status =
                        IF Tail(running_tasks[w]) = <<>> THEN "idle" ELSE "busy"]_vars

\* C6 witness: a completed task whose result is the object with status "ok",
\* with its result_parsed event.
C6_Witness ==
    \E id \in DOMAIN tasks :
        /\ tasks[id].status = "completed"
        /\ tasks[id].result_json = JObject([status |-> "ok", summary |-> "done"])
        /\ NumOf(events[id], "result_parsed") = 1

FailedInvalid(w, t) ==
    /\ tasks'[t].status = "failed"
    /\ tasks'[t].error_message = "Invalid JSON result from tool"
    /\ tasks'[t].result_json = JNull
    /\ ~InSeq(running_tasks'[w], t)
    /\ UNCHANGED <<next_id, create_pc>>

\* C8: when the text buffered for the collected task t does not parse as
\* JSON, t becomes failed with "Invalid JSON result from tool" and a null
\* result, leaves the FIFO, and no task is created or enqueued again; a
\* block with nothing between the sentinels does this to the FIFO head.
C8_InvalidJsonFails ==
    [][\A w \in WorkerIds :
           /\ (/\ collecting_task_id[w] # NoTask
               /\ ~JsonLoads(result_lines[w]).ok
               /\ MonitorTick(w, <<LineEnd>>))
              => FailedInvalid(w, collecting_task_id[w])
           /\ (/\ running_tasks[w] # <<>>
               /\ MonitorTick(w, <<LineStart, LineEnd>>))
              => FailedInvalid(w, Head(running_tasks[w]))]_vars

\* C8 witness: a task failed for an invalid payload.
C8_Witness ==
    \E id \in DOMAIN tasks :
        /\ tasks[id].status = "failed"
        /\ tasks[id].error_message = "Invalid JSON result from tool"
        /\ tasks[id].result_json = JNull

\* C9 as claimed: when the payload of the collected task parses to a JSON
\* object whose status is not "ok" (another string, or missing), the task
\* becomes failed.
C9_NotOkFails ==
    [][\A w \in WorkerIds :
           (/\ collecting_task_id[w] # NoTask
            /\ IsObject(JsonLoads(result_lines[w]))
            /\ StatusOf(JsonLoads(result_lines[w])) # "ok"
            /\ MonitorTick(w, <<LineEnd>>))
           => tasks'[collecting_task_id[w]].status = "failed"]_vars

\* C9 as amended: when the payload of the collected task parses to a JSON
\* object, the task becomes failed if the object's status is "failed" or
\* "error" and completed for every other status, or none.
C9_OnlyFailedOrErrorFails ==
    [][\A w \in WorkerIds :
           (/\ collecting_task_id[w] # NoTask
            /\ IsObject(JsonLoads(result_lines[w]))
            /\ MonitorTick(w, <<LineEnd>>))
           => tasks'[collecting_task_id[w]].status =
                  IF StatusOf(JsonLoads(result_lines[w])) \in {"failed", "error"}
                  THEN "failed" ELSE "completed"]_vars

\* C9 witness: a task completed on a result whose status is "partial".
C9_Witness ==
    \E id \in DOMAIN tasks :
        /\ tasks[id].status = "completed"
        /\ tasks[id].result_json = JObject([status |-> "partial"])

\* C10: when sentinel_end is processed while no task is being collected, no
\* task, worker or flow row changes, no event is written and the FIFO stays
\* as it is.
C10_EndWithoutCollecting ==
    [][\A w \in WorkerIds :
           (collecting_task_id[w] = NoTask /\ MonitorTick(w, <<LineEnd>>))
           => UNCHANGED <<tasks, workers, flows, events, running_tasks>>]_vars

\* C10 witness: the monitor runs with a running task at the FIFO head, a
\* line of its output already recorded, and no task being collected: a
\* sentinel_end read now meets no collecting task.
C10_Witness ==
    \E w \in WorkerIds :
        /\ monitor_alive[w]
        /\ collecting_task_id[w] = NoTask
        /\ running_tasks[w] # <<>>
        /\ tasks[Head(running_tasks[w])].status = "running"
        /\ NumOf(events[Head(running_tasks[w])], "stdout_chunk") = 1

\* C11 as claimed: a create_task call for a worker id with no row or for a
\* tool with no shim leaves the task rows, the worker rows, the events, the
\* spec files of the workspace and the FIFOs as they were.
C11_RejectedCreateChangesNothing ==
    [][\A w \in CallerWorkerIds, tool \in ToolNames, f \in FlowIds \cup {None} :
           (CreateTaskBegin(w, tool, f) /\ (w \notin DOMAIN workers \/ tool \notin TOOL_SHIMS))
           => UNCHANGED <<tasks, workers, events, spec_files, running_tasks>>]_vars

\* C12 as claimed: a worker's monitor loop still runs after a tick in which
\* the pane capture failed.
C12_CaptureFailureSkipped ==
    [][\A w \in WorkerIds : MonitorCaptureFails(w) => monitor_alive'[w]]_vars

\* The WorkerRuntime objects constructed for worker id w.
RuntimesOf(w) == {i \in 1..Len(instances) : instances[i] = w}

\* C13: at every moment there is at most one WorkerRuntime object per worker
\* id, each object has started at most one monitor loop, and a caller that
\* has its runtime (from ensure_runtime or from the registry's get) holds the
\* one object the registry stores for that worker id.
C13_OneRuntimePerWorker ==
    /\ \A w \in RegistryWorkerIds :
           /\ Cardinality(RuntimesOf(w)) <= 1
           /\ runtimes[w] # NoRuntime => RuntimesOf(w) = {runtimes[w]}
    /\ \A i \in 1..Len(monitors) : monitors[i] <= 1
    /\ \A c \in Callers :
           ensure_pc[c] \in {"release", "returned"} =>
               /\ ensure_runtime[c] # NoRuntime
               /\ ensure_runtime[c] = runtimes[ensure_worker[c]]

\* C13 witness: two callers, one through ensure_runtime's lock and one through
\* create_task's lock-free get, have both been handed the runtime of w2, and a
\* third waits for the lock.
C13_Witness ==
    /\ ensure_pc["bootstrap"] = "release" /\ ensure_worker["bootstrap"] = "w2"
    /\ ensure_pc["create_task"] = "returned" /\ ensure_worker["create_task"] = "w2"
    /\ ensure_pc["create_worker"] = "acquire" /\ ensure_worker["create_worker"] = "w2"
    /\ ensure_runtime["bootstrap"] # NoRuntime

\* The scores recorded for the first n iterations of flow f are all below
\* its min_score.
BelowMinScore(f, n) ==
    \A j \in 1..n :
        flow_iterations[f][j].critic_task_payload.score < flow_config[f].min_score

\* Once _run has returned it creates no task and records no iteration.
FlowStaysDone(f) ==
    flow_pc[f] = "done" =>
        /\ flow_pc'[f] = "done"
        /\ coder_tasks'[f] = coder_tasks[f]
        /\ flow_iterations'[f] = flow_iterations[f]

C15_CompletedAtFirstPassingIteration ==
    [][\A f \in FlowIds :
           /\ \A content \in Designs :
                  FlowCritic(f, content) =>
                      /\ tasks[CoderTask(f)].status = "completed"
                      /\ critic_result'[f].iteration = iteration[f]
                      /\ critic_result'[f].score =
                             IF 4 + content.headings + (content.words \div 200) >= 10
                             THEN 10
                             ELSE 4 + content.headings + (content.words \div 200)
           /\ (FlowDecide(f) /\ critic_result[f].score >= flow_config[f].min_score) =>
                  /\ flows'[f] =
                         [status |-> "completed",
                          result |-> [kind |-> "dict", final_iteration |-> iteration[f],
                                      critic |-> critic_result[f]]]
                  /\ Len(flow_iterations[f]) = iteration[f]
                  /\ flow_iterations[f][iteration[f]].critic_task_payload = critic_result[f]
                  /\ BelowMinScore(f, iteration[f] - 1)
                  /\ flow_pc'[f] = "done"
           /\ (f \in DOMAIN flows /\ flows[f].status # "completed"
                   /\ flows'[f].status = "completed") =>
                  /\ flow_pc[f] = "decide"
                  /\ critic_result[f].score >= flow_config[f].min_score
           /\ FlowStaysDone(f)]_vars

\* C15 witness: a flow completed at its second iteration.
C15_Witness ==
    \E f \in DOMAIN flows :
        /\ flows[f].status = "completed"
        /\ flows[f].result.final_iteration = 2
        /\ Len(flow_iterations[f]) = 2
        /\ flow_pc[f] = "done"

C17_CoderFailureFailsFlow ==
    [][\A f \in FlowIds :
           /\ FlowCoderFailed(f) =>
                  /\ flows'[f] =
                         [status |-> "failed",
                          result |-> [kind |-> "dict", reason |-> "coder_task_failed",
                                      details |-> [kind |-> "dict",
                                                   task_id |-> CoderTask(f)]]]
                  /\ Len(flow_iterations[f]) = iteration[f] - 1
                  /\ flow_iterations'[f] = flow_iterations[f]
                  /\ flow_pc'[f] = "done"
           /\ (flow_pc[f] = "wait" /\ flow_pc'[f] # "wait"
                   /\ tasks[CoderTask(f)].status = "failed") => FlowCoderFailed(f)
           /\ (flow_pc[f] = "done" /\ coder_tasks[f] # <<>>
                   /\ tasks[CoderTask(f)].status = "failed") =>
                  /\ flow_pc'[f] = "done"
                  /\ coder_tasks'[f] = coder_tasks[f]
                  /\ flow_iterations'[f] = flow_iterations[f]
                  /\ Len(flow_iterations[f]) = iteration[f] - 1]_vars

\* C17 witness: a flow failed by the coder task of its second iteration.
C17_Witness ==
    \E f \in DOMAIN flows :
        /\ flow_pc[f] = "done"
        /\ iteration[f] = 2
        /\ Len(flow_iterations[f]) = 1
        /\ flows[f].result =
               [kind |-> "dict", reason |-> "coder_task_failed",
                details |-> [kind |-> "dict", task_id |-> CoderTask(f)]]

\* C18 as claimed: a flow status that is completed or failed never changes.
C18_FlowStatusFinal ==
    [][\A f \in DOMAIN flows :
           flows[f].status \in Terminal => flows'[f].status = flows[f].status]_vars

\* C19 as claimed: a flow's result is null while the flow is running, and a
\* result that has been written never changes.
C19_ResultSetOnce ==
    /\ [](\A f \in DOMAIN flows :
             flows[f].status = "running" => flows[f].result = [kind |-> "None"])
    /\ [][\A f \in DOMAIN flows :
              flows[f].result # [kind |-> "None"] => flows'[f].result = flows[f].result]_vars

\* Task t was created by a coordinator as a coder task.
IsCoderTask(t) == \E f \in FlowIds : InSeq(coder_tasks[f], t)

FinalisedNow(w, id) ==
    /\ id \in DOMAIN tasks
    /\ tasks[id].worker_id = w
    /\ tasks[id].status \notin Terminal
    /\ tasks'[id].status \in Terminal

C28_CommitBeforeEnqueue ==
    \A w \in WorkerIds :
        /\ \A i \in 1..Len(running_tasks[w]) :
               /\ Committed(running_tasks[w][i])
               /\ tasks[running_tasks[w][i]].status = "running"
               /\ tasks[running_tasks[w][i]].worker_id = w
        /\ \A id \in TaskIds :
               create_pc[id] \in {"none", "flushed", "committed"} => ~InSeq(running_tasks[w], id)

\* C28 witness: two running tasks wait in a worker's FIFO while the rows of
\* both are committed.
C28_Witness ==
    \E w \in WorkerIds :
        /\ Len(running_tasks[w]) = 2
        /\ \A i \in 1..2 : tasks[running_tasks[w][i]].status = "running"

\* The stdout_chunk events recorded for the tasks of worker w.
ChunksOf(evs, tk, w) ==
    {<<id, i>> \in TaskIds \X (1..(MaxChunks + 2)) :
        /\ id \in DOMAIN tk /\ tk[id].worker_id = w
        /\ i <= Len(evs[id]) /\ evs[id][i].type = "stdout_chunk"}

\* C30 (as stated): while the block that a sentinel_start opened with an empty
\* FIFO is still open, no step records a stdout_chunk event for a task of the
\* worker and no step changes the collecting task id from null.
C30_UnclaimedBlockDiscarded ==
    [][\A w \in WorkerIds :
           (unclaimed_block[w] /\ unclaimed_block'[w]) =>
               /\ ChunksOf(events', tasks', w) = ChunksOf(events, tasks, w)
               /\ collecting_task_id'[w] = NoTask]_vars

\* The states a classifier may report.
LifecycleStates == {"READY", "BUSY", "NEEDS_CONFIRMATION", "ERROR"}

\* The remote classifier failed: the request failed, the reply is no JSON
\* text, or the JSON value is not an object with a lifecycle state.
RemoteFailed(remote) ==
    \/ remote.kind # "reply"
    \/ ~ParseLexemes(remote.message).ok
    \/ ParseLexemes(remote.message).value.kind # "object"
    \/ DictGet(ParseLexemes(remote.message).value.fields, "state") \notin LifecycleStates

\* C25 (as stated): a finished HybridClassifier.classify call has returned a
\* result, never raised, and when an API key is configured and the remote
\* classifier failed the result is the regex classifier's for the snapshot.
C25_FallbackOnAnyRemoteFailure ==
    classify_result.kind # "None" =>
        /\ classify_result.kind = "result"
        /\ (classify_call.llm /\ RemoteFailed(classify_call.remote)) =>
               classify_result = RegexClassify(Pack, classify_call.snapshot)

\* The hash a pane had stored before a cycle: None for an untracked pane.
StoredHash(p) == IF p \in DOMAIN pane_state THEN pane_state[p].last_snapshot_hash ELSE NoHash

\* Pane p was processed by the cycle that led to the primed state.
ProcessedNow(p) == cycle' = cycle + 1 /\ last_poll'[p].presence = "worker"

\* C21: in every watcher cycle that processes a pane whose snapshot hash
\* differs from the stored last_snapshot_hash, the pane's stable_count is 0
\* and its state is BUSY after the cycle.
C21_ChangeResetsToBusy ==
    [][\A p \in PaneIds :
           (ProcessedNow(p) /\ last_poll'[p].hash # StoredHash(p)) =>
               /\ pane_state'[p].stable_count = 0
               /\ pane_state'[p].state = "BUSY"
               /\ pane_state'[p].last_snapshot_hash = last_poll'[p].hash]_vars

\* C21 witness: a pane that was classified ERROR on a stable screen shows
\* another text and is BUSY again with a stable count of 0.
C21_Witness ==
    \E p \in DOMAIN pane_state :
        /\ pane_state[p].last_classified_hash = Sha256(<<"Traceback">>)
        /\ pane_state[p].last_snapshot_hash = Sha256(<<"$">>)
        /\ pane_state[p].stable_count = 0
        /\ pane_state[p].state = "BUSY"

\* The classifier calls made for pane p against hash h.
CallsFor(p, h) == {i \in 1..Len(classify_log[p]) : classify_log[p][i].hash = h}

\* C22 (as stated): for each pane, the classifier has been called against
\* each snapshot hash at most once over all cycles.
C22_ClassifiedOncePerHash ==
    \A p \in PaneIds : \A i, j \in 1..Len(classify_log[p]) :
        classify_log[p][i].hash = classify_log[p][j].hash => i = j

\* The rows of a status_history table written for pane p in cycle c.
RowsOf(history, p, c) ==
    {i \in 1..Len(history) : history[i].id = p /\ history[i].ts = c}
HistoryRows(p, c) == RowsOf(status_history, p, c)

\* The classifier calls made for pane p in the cycles first..last.
CallsBetween(p, first, last) ==
    {i \in 1..Len(classify_log[p]) :
        classify_log[p][i].ts >= first /\ classify_log[p][i].ts <= last}

\* Pane p was first seen n cycles ago and has shown the same stripped text
\* in all n + 1 cycles since.
NewlySeenAndStableFor(p, n) ==
    /\ p \in DOMAIN pane_state
    /\ pane_state[p].stable_count = n
    /\ cycle > n
    /\ HistoryRows(p, cycle - n) # {}
    /\ HistoryRows(p, cycle - n - 1) = {}

\* C23: when a newly seen pane has shown the same stripped text for
\* threshold + 1 cycles in a row, the classifier was called exactly once in
\* those cycles, in the last of them, and each of the cycles added exactly
\* one status_history row for the pane.
C23_OneClassificationAfterThreshold ==
    \A p \in PaneIds :
        NewlySeenAndStableFor(p, stability_polls) =>
            /\ Cardinality(CallsBetween(p, cycle - stability_polls, cycle)) = 1
            /\ last_poll[p].classified
            /\ \A c \in (cycle - stability_polls)..cycle : Cardinality(HistoryRows(p, c)) = 1

\* C23 witness: with the default threshold of 3, a pane first seen in the
\* second cycle has shown one stripped text for four
\* cycles and is classified READY.
C23_Witness ==
    /\ stability_polls = WatcherDefaultStability
    /\ cycle = 5
    /\ NewlySeenAndStableFor("%1", WatcherDefaultStability)
    /\ pane_state["%1"].state = "READY"
    /\ pane_state["%1"].summary = "Idle prompt detected"

\* C24: a tracked pane that a cycle does not list, or lists in a session of
\* no worker, is dropped by that cycle, which writes no status row, history
\* row or status file for it; after every cycle the tracked panes are the
\* panes the cycle processed.
C24_DisappearedPaneDropped ==
    [][cycle' = cycle + 1 =>
           /\ DOMAIN pane_state' = {p \in PaneIds : last_poll'[p].presence = "worker"}
           /\ \A p \in DOMAIN pane_state :
                  last_poll'[p].presence # "worker" =>
                      /\ p \notin DOMAIN pane_state'
                      /\ RowsOf(status_history', p, cycle') = {}
                      /\ status_rows'[p] = status_rows[p]
                      /\ \A w \in WorkerIds :
                             status_file'[w].pane_id = p => status_file'[w] = status_file[w]]_vars

\* C24 witness: pane %1 was tracked and classified, then left the listing:
\* the cache holds pane %2 only, and the status row of %1 is the one of the
\* cycle before.
C24_Witness ==
    /\ DOMAIN pane_state = {"%2"}
    /\ last_poll["%1"].presence = "foreign"
    /\ "%1" \in DOMAIN status_rows
    /\ status_rows["%1"].state = "ERROR"
    /\ status_rows["%1"].last_polled_ts = cycle - 1

\* C29: a cycle calls the classifier for a pane only when the pane showed the
\* same hash in the cycle before, the incremented stable_count has reached
\* the pane's threshold and the hash is not last_classified_hash; the call
\* leaves last_classified_hash equal to the hash.
C29_ClassifyOnlyWhenStable ==
    [][\A p \in PaneIds :
           (ProcessedNow(p) /\ last_poll'[p].classified) =>
               /\ last_poll[p].presence = "worker"
               /\ last_poll[p].hash = last_poll'[p].hash
               /\ StoredHash(p) = last_poll'[p].hash
               /\ pane_state'[p].stable_count = pane_state[p].stable_count + 1
               /\ pane_state'[p].stable_count >= Threshold(pane_state[p])
               /\ pane_state[p].last_classified_hash # last_poll'[p].hash
               /\ pane_state'[p].last_classified_hash = last_poll'[p].hash]_vars

\* C29 witness: a pane whose last classification was for another text has
\* just been classified again, for the text it shows now.
C29_Witness ==
    \E p \in PaneIds :
        /\ last_poll[p].presence = "worker"
        /\ last_poll[p].classified
        /\ Len(classify_log[p]) = 2
        /\ classify_log[p][1].hash # classify_log[p][2].hash
        /\ pane_state[p].last_classified_hash = last_poll[p].hash

\* What a newly constructed emulator renders for the raw text.
FirstRender(raw_text) == DisplayText(Fed("ground", raw_text))

\* C26 (as stated): whatever was rendered before on the same emulator, a
\* render call returns what a new emulator returns for the raw text, so
\* rendering one raw text twice gives one result.
C26_RenderIndependentOfEarlierCalls ==
    \A i \in 1..Len(rendered) : rendered[i].text = FirstRender(rendered[i].raw_text)

\* C35 (as stated): a monitor step that processes sentinel_end while a
\* committed task is being collected leaves that task terminal and the
\* monitor loop running, whatever the payload.
C35_EndAlwaysFinalises ==
    [][\A w \in WorkerIds :
           (/\ collecting_task_id[w] # NoTask
            /\ Committed(collecting_task_id[w])
            /\ MonitorTick(w, <<LineEnd>>)) =>
               /\ tasks'[collecting_task_id[w]].status \in Terminal
               /\ monitor_alive'[w]]_vars

\* C37 (as stated): a worker whose status is idle has no task with status
\* running.
C37_IdleWorkerHasNoRunningTask ==
    \A w \in WorkerIds :
        workers[w].status = "idle" =>
            \A id \in DOMAIN tasks :
                (Committed(id) /\ tasks[id].worker_id = w) => tasks[id].status # "running"

\* C40 (as stated): a tracked pane whose snapshot has been unchanged for at
\* least threshold cycles reports the classification of that snapshot.
C40_StablePaneReportsClassification ==
    \A p \in DOMAIN pane_state :
        pane_state[p].stable_count >= Threshold(pane_state[p]) =>
            /\ pane_state[p].state = WatcherClassify(pane_state[p].last_snapshot_hash.digest).state
            /\ pane_state[p].summary =
                   WatcherClassify(pane_state[p].last_snapshot_hash.digest).summary

\* C34 (as stated): a cycle in which the capture of a tracked pane fails
\* leaves the pane's PaneState as it was and does not classify the pane.
C34_FailedCaptureSkipsPane ==
    [][\A listing \in CaptureListings : \A p \in DOMAIN pane_state :
           (listing[p] = CaptureFailed /\ PollOnce(listing)) =>
               /\ p \in DOMAIN pane_state'
               /\ pane_state'[p] = pane_state[p]
               /\ ~last_poll'[p].classified]_vars

\* A step in which capture_pane returned for worker w.
CaptureReturned(w) == snapshot'[w] # snapshot[w] \/ last_size'[w] # last_size[w]

\* C33: a capture returns the pane's text, and as new_text the part of it from
\* the cursor on when the text is at least as long as the cursor, the whole
\* text otherwise; after every step the cursor is the length of the text
\* captured last.
C33_CaptureReturnsNewText ==
    [][\A w \in WorkerIds :
           /\ last_size'[w] = Len(snapshot'[w].text)
           /\ CaptureReturned(w) =>
                  /\ snapshot'[w].text = pane_text[w]
                  /\ snapshot'[w].new_text =
                         IF Len(pane_text[w]) >= last_size[w]
                         THEN [i \in 1..(Len(pane_text[w]) - last_size[w]) |->
                                   pane_text[w][last_size[w] + i]]
                         ELSE pane_text[w]]_vars

\* A capture found a text shorter than the cursor and returned all of it.
C33_Witness ==
    \E w \in WorkerIds :
        /\ snapshot[w].cursor_before > Len(snapshot[w].text)
        /\ snapshot[w].text # <<>>
        /\ snapshot[w].new_text = snapshot[w].text
        /\ last_size[w] = Len(snapshot[w].text)

\* C39 (as stated): a task whose command send_line failed to deliver is not in
\* its worker's FIFO, so it is never the head that output is attributed to.
C39_UndeliveredTaskNotInFifo ==
    \A w \in WorkerIds : \A i \in 1..Len(running_tasks[w]) :
        create_pc[running_tasks[w][i]] # "send_failed"

\* The closing sentinels the pane has shown so far, by their place in the output.
EndsShown == {j \in 1..emitted : pane_script[j] = EndTail}

EverySendDelivered == \A id \in TaskIds : create_pc[id] # "send_failed"

\* C36 (as stated): when every command was delivered, no more tasks are
\* finalised than the pane has shown blocks, and every finalised task's
\* command was sent before the end of some block was printed.
C36_BlockFinalisesAtMostOneTask ==
    EverySendDelivered =>
        /\ Cardinality({id \in DOMAIN tasks : tasks[id].status \in Terminal})
               <= Cardinality(EndsShown)
        /\ \A id \in DOMAIN tasks :
               tasks[id].status \in Terminal =>
                   \E i \in 1..Len(sent) :
                       sent[i].task_id = id /\ \E j \in EndsShown : j > sent[i].at

\* The store right after create_task for worker w1 and tool codex returned,
\* and the monitor of w1 before it has read anything.
StoreAfterCreate ==
    [tasks |-> <<[NewTask("w1", "codex", None) EXCEPT !.status = "running", !.started = TRUE]>>,
     workers |-> [w \in WorkerIds |-> [status |-> "busy"]],
     flows |-> [f \in FlowIds |-> [status |-> "running", result |-> [kind |-> "None"]]],
     events |-> AddEvent([i \in TaskIds |-> <<>>],
                         Event(1, "state_change",
                               [state |-> "running", command |-> BuildCommand("codex", 1)]))]

\* What _process_lines leaves when the whole output of the pane is read in
\* one capture.
ReadInOneCapture ==
    WalkLines([db |-> StoreAfterCreate, saved |-> StoreAfterCreate, fifo |-> <<1>>,
               collecting |-> NoTask, lines |-> <<>>, unclaimed |-> FALSE,
               raised |-> FALSE, over |-> FALSE],
              LinesOf(pane_script))

\* Task 1 is the only task, its command was delivered before any output, the
\* pane kept all its lines, and the monitor has read the output to its end.
OneTaskReadToEnd ==
    /\ DOMAIN tasks = {1}
    /\ create_pc[1] = "done"
    /\ sent = <<[task_id |-> 1, at |-> 0]>>
    /\ scrolls = 0
    /\ emitted = Len(pane_script)
    /\ \A w \in WorkerIds : monitor_alive[w] /\ last_size[w] = Len(pane_script)

\* C38 (as stated): once the monitor has read the whole output, the task rows
\* and the events are those of reading the output in one capture, wherever
\* the captures cut it.
C38_OutcomeIndependentOfCuts ==
    OneTaskReadToEnd =>
        /\ tasks = ReadInOneCapture.db.tasks
        /\ events = ReadInOneCapture.db.events

\* The monitor of w as it stands before and after the i-th line of a batch.
BeforeLine(w, lines, i) == WalkLines(StartOfBatch(w), SubSeq(lines, 1, i - 1))
AfterLine(w, lines, i) == WalkLines(StartOfBatch(w), SubSeq(lines, 1, i))

\* C32 (as stated): of the lines a capture hands to the monitor, every line
\* that contains sentinel_start begins collection for the FIFO head with an
\* empty buffer, and every line that contains sentinel_end finalises the task
\* collected when it is read, whatever else the line carries.
C32_EveryMarkerLineActs ==
    [][\A w \in WorkerIds :
           (monitor_alive[w] /\ CaptureReturned(w)) =>
               \A i \in 1..Len(LinesOf(snapshot'[w].new_text)) :
                   ~BeforeLine(w, LinesOf(snapshot'[w].new_text), i).raised =>
                       /\ Contains(LinesOf(snapshot'[w].new_text)[i], sentinel_start) =>
                              /\ AfterLine(w, LinesOf(snapshot'[w].new_text), i).collecting =
                                     FifoHead(BeforeLine(w, LinesOf(snapshot'[w].new_text), i).fifo)
                              /\ AfterLine(w, LinesOf(snapshot'[w].new_text), i).lines = <<>>
                       /\ (/\ Contains(LinesOf(snapshot'[w].new_text)[i], sentinel_end)
                           /\ BeforeLine(w, LinesOf(snapshot'[w].new_text), i).collecting # NoTask) =>
                              \/ ~monitor_alive'[w]
                              \/ tasks'[BeforeLine(w, LinesOf(snapshot'[w].new_text), i).collecting].status
                                     \in Terminal]_vars

IsStart(line) == Contains(line, sentinel_start)
IsEnd(line) == Contains(line, sentinel_end) /\ ~Contains(line, sentinel_start)

\* In a batch, line i is the last sentinel_start before the sentinel_end of
\* line j, an earlier sentinel_start precedes it, and no sentinel_end comes
\* before line j.
RestartedBlock(lines, i, j) ==
    /\ i < j
    /\ IsStart(lines[i])
    /\ IsEnd(lines[j])
    /\ \E k \in 1..(i - 1) : IsStart(lines[k])
    /\ \A k \in 1..(j - 1) : ~Contains(lines[k], sentinel_end)
    /\ \A k \in (i + 1)..(j - 1) : ~IsStart(lines[k])

\* Line i is the last marker line of the batch and a sentinel_start.
OpenAtEnd(lines, i) ==
    /\ IsStart(lines[i])
    /\ \A k \in (i + 1)..Len(lines) : ~IsStart(lines[k]) /\ ~Contains(lines[k], sentinel_end)

\* The row task id gets when lines is the payload parsed for it.
RowFinalisedWith(w, id, lines) ==
    FinalizeResult([StartOfBatch(w) EXCEPT !.collecting = id, !.lines = lines]).db.tasks[id]

\* C31: when a batch restarts a block before its sentinel_end, the task that
\* is the FIFO head gets the row that parsing only the lines after the last
\* sentinel_start gives; and after a batch that ends inside a block, the task
\* collected is the FIFO head and the buffer holds only the lines after the
\* last sentinel_start.
C31_LatestStartWins ==
    [][\A w \in WorkerIds :
           (monitor_alive[w] /\ CaptureReturned(w) /\ monitor_alive'[w]) =>
               \A i \in 1..Len(LinesOf(snapshot'[w].new_text)) :
                   /\ OpenAtEnd(LinesOf(snapshot'[w].new_text), i) =>
                          /\ collecting_task_id'[w] = FifoHead(running_tasks'[w])
                          /\ result_lines'[w] =
                                 IF running_tasks'[w] = <<>> THEN <<>>
                                 ELSE SubSeq(LinesOf(snapshot'[w].new_text), i + 1,
                                             Len(LinesOf(snapshot'[w].new_text)))
                   /\ \A j \in 1..Len(LinesOf(snapshot'[w].new_text)) :
                          (/\ RestartedBlock(LinesOf(snapshot'[w].new_text), i, j)
                           /\ running_tasks[w] # <<>>) =>
                              tasks'[Head(running_tasks[w])] =
                                  RowFinalisedWith(w, Head(running_tasks[w]),
                                                   SubSeq(LinesOf(snapshot'[w].new_text),
                                                          i + 1, j - 1))]_vars

\* A block restarted after a line of plain text was read in one capture, and
\* task 1 completed with the object printed after the second sentinel_start.
C31_Witness ==
    /\ pane_script = ScriptRestart
    /\ \E w \in WorkerIds : snapshot[w].new_text = ScriptRestart
    /\ 1 \in DOMAIN tasks
    /\ tasks[1].status = "completed"
    /\ tasks[1].result_json = JsonLoads(<<LineOk>>).value


====
